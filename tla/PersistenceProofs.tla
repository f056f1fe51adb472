------------------------- MODULE PersistenceProofs -------------------------
(***************************************************************************)
(* Theorems about module Persistence: its types, that nothing accepted by   *)
(* memory is forgotten, and that the queues lead to what memory shows, for  *)
(* any number of operations, schema changes, failures and restarts.         *)
(***************************************************************************)
EXTENDS Persistence, NatLemmas, SequenceTheorems

\* The types of the variables.
Storage == [dbTomb : BOOLEAN, collTomb : BOOLEAN, journal : SUBSET Op,
            snap : SUBSET Op, cursor : 0..MaxOps]
Checkpoint == [phase : {"idle", "flushing", "reading", "latest", "compact"},
               ops : SUBSET Op, cursor : 0..MaxOps]
Memory == [dbGone : BOOLEAN, collGone : BOOLEAN, ops : SUBSET Op]

Fields ==
    /\ mem \in Memory /\ seq \in 0..MaxOps /\ pend \in Queue /\ batch \in Queue
    /\ todo \subseteq CallNames /\ s3 \in Storage /\ ckpt \in Checkpoint
    /\ up \in BOOLEAN /\ boots \in 0..MaxRestarts
    /\ schema \in 0..MaxSchemaChanges /\ failures \in 0..MaxFailures
    /\ acked \subseteq Op /\ replayed \subseteq RecordTypes \cup {"torn"}
    /\ lapses \subseteq Lapses

\* Records of this run of the process or of an earlier one: queued, and in the file.
Loggable(run) ==
    {r \in Record : r.op.run <= run /\ (r.type = "ops" => r.op \in Op)}
Queueable(run) == {r \in Loggable(run) : r.type \in RecordTypes}

LogsOk ==
    /\ walPend \in Seq(Queueable(boots)) /\ walBusy \in Seq(Queueable(boots))
    /\ wal \in Seq(Loggable(boots))

\* Operations come from this run of the process or from an earlier one.
Ops == mem.ops \cup pend.ops \cup batch.ops \cup ckpt.ops \cup s3.journal \cup s3.snap
RunsOk == \A o \in Ops : o.run <= boots

DownOk ==
    ~up => /\ mem.ops = {} /\ pend = Nothing /\ batch = Nothing /\ todo = {}
           /\ ckpt = Idle /\ walPend = <<>> /\ walBusy = <<>>
           /\ boots < MaxRestarts

\* The calls that remain are the last ones of the batch, or the truncation.
BatchOk ==
    /\ todo \subseteq CallsOf(batch) \cup {"truncate"}
    /\ "truncate" \in todo => todo = {"truncate"}
    /\ \A c \in CallsOf(batch), d \in todo : Stage[d] < Stage[c] => c \in todo
    /\ todo = {} => batch = Nothing
    /\ ckpt.phase \in {"reading", "latest", "compact"} => todo = {}

\* Removals that the batch has written are in storage.
RemovedOk ==
    /\ batch.dbDrop /\ "tombDb" \notin todo /\ ~batch.db => s3.dbTomb
    /\ batch.collDrop /\ "tombColl" \notin todo /\ ~batch.meta => s3.collTomb

\* The process is in step with storage, but for what is queued.
InStep == up /\ replayed \subseteq {"ops"} /\ lapses \subseteq LeftBehind

\* What memory shows as present will not be removed in storage.
TombsOk ==
    InStep =>
        /\ mem.dbGone \/ mem.collGone => mem.ops = {}
        /\ ~mem.dbGone =>
               \/ pend.db
               \/ /\ ~pend.dbDrop
                  /\ \/ "untombDb" \in todo
                     \/ "tombDb" \notin todo /\ ~s3.dbTomb
        /\ ~mem.collGone =>
               \/ pend.meta
               \/ /\ ~pend.collDrop
                  /\ \/ "untombColl" \in todo
                     \/ "tombColl" \notin todo /\ ~s3.collTomb

\* Numbers of new operations lie beyond every cursor.
CursorsOk ==
    InStep =>
        /\ s3.cursor <= seq /\ ckpt.cursor <= seq
        /\ ckpt.phase \in {"reading", "latest"} => s3.cursor <= ckpt.cursor
        /\ ckpt.phase = "compact" => ckpt.cursor <= s3.cursor

\* The operations that this process applied and memory still shows.
Known == {o \in mem.ops : o.run = boots}

\* A known operation is queued, being written, or stored.
Placed(o) ==
    /\ \/ o \in pend.ops
       \/ "journal" \in todo /\ o \in batch.ops
       \/ o \in s3.journal
       \/ o.seq <= s3.cursor
    /\ o.seq <= s3.cursor => o \in s3.snap
    /\ ckpt.phase = "latest" /\ o.seq <= ckpt.cursor => o \in ckpt.ops
    /\ pend.dbDrop \/ pend.collDrop => o \in pend.ops
    /\ batch.dbDrop \/ batch.collDrop => o \in pend.ops \cup batch.ops

PlacesOk == InStep => \A o \in Known : Placed(o)

Typed == Fields /\ LogsOk /\ RunsOk /\ DownOk

IInv == Typed /\ BatchOk /\ RemovedOk /\ TombsOk /\ CursorsOk /\ PlacesOk

----------------------------------------------------------------------------
\* Sequences.

LEMMA ElementsInSet ==
    ASSUME NEW S, NEW s \in Seq(S)
    PROVE  \A x \in Range(s) : x \in S
<1>1. DOMAIN s = 1..Len(s)  BY LenProperties
<1>2. \A i \in DOMAIN s : s[i] \in S  BY <1>1, ElementOfSeq
<1> QED  BY <1>2 DEF Range

\* WithoutCollection goes through the records one by one.
LEMMA WithoutCollectionSteps ==
    ASSUME NEW S, NEW records \in Seq(S)
    PROVE  \E f \in [0..Len(records) -> Seq(S)] :
               /\ WithoutCollection(records) = f[Len(records)]
               /\ f[0] = <<>>
               /\ \A i \in 1..Len(records) :
                      f[i] = IF records[i].type \in {"ops", "meta", "dropCollection"}
                             THEN f[i - 1] ELSE Append(f[i - 1], records[i])
<1> DEFINE n == Len(records)
           Drops(i) == records[i].type \in {"ops", "meta", "dropCollection"}
           Is(g, m) == g = [i \in 0..m |->
                               IF i = 0 THEN <<>>
                               ELSE IF Drops(i) THEN g[i - 1]
                               ELSE Append(g[i - 1], records[i])]
           T == {m \in Nat : m <= n => \E g : Is(g, m) /\ g \in [0..m -> Seq(S)]}
<1>1. n \in Nat  BY LenProperties
<1>2. 0 \in T
    <2>1. Is([i \in 0..0 |-> <<>>], 0)  OBVIOUS
    <2>2. [i \in 0..0 |-> <<>>] \in [0..0 -> Seq(S)]  OBVIOUS
    <2> QED  BY <2>1, <2>2
<1>3. ASSUME NEW m \in Nat, m \in T PROVE m + 1 \in T
    <2> SUFFICES ASSUME m + 1 <= n
                 PROVE  \E g : Is(g, m + 1) /\ g \in [0..m+1 -> Seq(S)]
        <3> HIDE DEF Is, n
        <3> QED  OBVIOUS
    <2>1. PICK g : Is(g, m) /\ g \in [0..m -> Seq(S)]
        <3>1. m <= n  BY <1>1
        <3> HIDE DEF Is, n
        <3> QED  BY <1>3, <3>1
    <2> DEFINE last == IF Drops(m + 1) THEN g[m] ELSE Append(g[m], records[m + 1])
               h == [i \in 0..m+1 |-> IF i <= m THEN g[i] ELSE last]
    <2>2. records[m + 1] \in S  BY <1>1, ElementOfSeq
    <2>3. g[m] \in Seq(S)  BY <2>1
    <2>4. last \in Seq(S)  BY <2>2, <2>3, AppendProperties
    <2>5. h \in [0..m+1 -> Seq(S)]
        <3> HIDE DEF last, Drops, Is
        <3> QED  BY <2>1, <2>4
    <2>6. \A i \in 0..m+1 : h[i] = IF i = 0 THEN <<>>
                                   ELSE IF Drops(i) THEN h[i - 1]
                                   ELSE Append(h[i - 1], records[i])
        <3> TAKE i \in 0..m+1
        <3>1. CASE i = 0
            <4>1. g[0] = <<>> /\ h[0] = g[0]  BY <2>1
            <4> HIDE DEF h, Drops
            <4> QED  BY <3>1, <4>1
        <3>2. CASE i \in 1..m
            <4>1. h[i] = g[i] /\ h[i - 1] = g[i - 1]  BY <3>2
            <4>2. g[i] = IF i = 0 THEN <<>> ELSE IF Drops(i) THEN g[i - 1]
                         ELSE Append(g[i - 1], records[i])
                <5>1. i \in 0..m  BY <3>2
                <5> HIDE DEF Drops, h
                <5> QED  BY <2>1, <5>1
            <4>3. i # 0 /\ i \in 0..m+1  BY <3>2
            <4> HIDE DEF Drops, h
            <4> QED  BY <4>1, <4>2, <4>3
        <3>3. CASE i = m + 1
            <4>1. h[i] = last /\ h[i - 1] = g[m] /\ i # 0  BY <3>3
            <4> HIDE DEF h
            <4> QED  BY <3>3, <4>1
        <3> QED  BY <3>1, <3>2, <3>3
    <2>7. Is(h, m + 1)
        <3> HIDE DEF Drops, last
        <3> QED  BY <2>6
    <2> HIDE DEF Is, h
    <2> QED  BY <2>5, <2>7
<1>4. n \in T
    <2> HIDE DEF T
    <2> QED  BY <1>1, <1>2, <1>3, NatSetInduction
<1>5. PICK g : Is(g, n) /\ g \in [0..n -> Seq(S)]
    <2>1. n <= n  BY <1>1
    <2> HIDE DEF Is, n
    <2> QED  BY <1>4, <2>1
<1> DEFINE f == CHOOSE h : Is(h, n)
<1>6. Is(f, n)
    <2> HIDE DEF Is
    <2> QED  BY <1>5
<1>7. f \in [0..n -> Seq(S)]
    <2> DEFINE U == {m \in Nat : m <= n => f[m] \in Seq(S)}
    <2>1. \A i \in 0..n : f[i] = IF i = 0 THEN <<>>
                                ELSE IF Drops(i) THEN f[i - 1]
                                ELSE Append(f[i - 1], records[i])
        <3> HIDE DEF f, Drops
        <3> QED  BY <1>6
    <2> HIDE DEF f
    <2>2. 0 \in U
        <3>1. f[0] = <<>>
            <4> HIDE DEF Drops
            <4> QED  BY <1>1, <2>1
        <3>2. <<>> \in Seq(S)  BY EmptySeq
        <3> HIDE DEF Drops
        <3> QED  BY <3>1, <3>2
    <2>3. ASSUME NEW m \in Nat, m \in U PROVE m + 1 \in U
        <3> SUFFICES ASSUME m + 1 <= n PROVE f[m + 1] \in Seq(S)  OBVIOUS
        <3>1. f[m] \in Seq(S) /\ m + 1 - 1 = m  BY <1>1, <2>3
        <3>2. records[m + 1] \in S  BY <1>1, ElementOfSeq
        <3>3. Append(f[m], records[m + 1]) \in Seq(S)  BY <3>1, <3>2, AppendProperties
        <3>4. m + 1 \in 0..n /\ m + 1 # 0  BY <1>1
        <3>5. f[m + 1] = IF Drops(m + 1) THEN f[m] ELSE Append(f[m], records[m + 1])
            <4> HIDE DEF Drops
            <4> QED  BY <2>1, <3>1, <3>4
        <3> HIDE DEF Drops
        <3> QED  BY <3>1, <3>3, <3>5
    <2>4. \A m \in Nat : m \in U
        <3> HIDE DEF U
        <3> QED  BY <2>2, <2>3, NatSetInduction
    <2>5. \A i \in 0..n : f[i] \in Seq(S)  BY <2>4
    <2>6. DOMAIN f = 0..n /\ f = [i \in DOMAIN f |-> f[i]]  BY <1>6
    <2> QED  BY <2>5, <2>6
<1>8. WithoutCollection(records) = f[n]  BY DEF WithoutCollection
<1>9. /\ f[0] = <<>>
      /\ \A i \in 1..n : f[i] = IF Drops(i) THEN f[i - 1] ELSE Append(f[i - 1], records[i])
    <2>1. \A i \in 0..n : f[i] = IF i = 0 THEN <<>>
                                ELSE IF Drops(i) THEN f[i - 1]
                                ELSE Append(f[i - 1], records[i])
        <3> HIDE DEF f, Drops
        <3> QED  BY <1>6
    <2>2. 0 \in 0..n /\ \A i \in 1..n : i \in 0..n /\ i # 0  BY <1>1
    <2> HIDE DEF f, Drops, n
    <2> QED  BY <2>1, <2>2
<1> HIDE DEF f, Is
<1> QED  BY <1>7, <1>8, <1>9

LEMMA WithoutCollectionType ==
    ASSUME NEW S, NEW records \in Seq(S)
    PROVE  WithoutCollection(records) \in Seq(S)
<1>1. Len(records) \in 0..Len(records)  BY LenProperties
<1> QED  BY <1>1, WithoutCollectionSteps

LEMMA SpecialRecords ==
    ASSUME NEW run \in Nat
    PROVE  /\ \A t \in RecordTypes \ {"ops"} : Rec(t) \in Queueable(run)
           /\ Torn \in Loggable(run) /\ Glued \in Loggable(run)
<1>1. NoOp.run = 0  BY DEF NoOp
<1>2. \A t \in RecordTypes \cup {"torn", "glued"} :
          Rec(t) \in Record /\ Rec(t).op = NoOp /\ Rec(t).type = t
    BY DEF Rec, Record
<1> QED  BY <1>1, <1>2 DEF Queueable, Loggable, Torn, Glued, RecordTypes

LEMMA QueueableIsLoggable ==
    ASSUME NEW run, NEW s \in Seq(Queueable(run))
    PROVE  s \in Seq(Loggable(run))
<1>1. \A r \in Queueable(run) : r \in Loggable(run)  BY DEF Queueable
<1> QED  BY <1>1, SeqMonotonic

LEMMA AppendedType ==
    ASSUME NEW run \in Nat, NEW file \in Seq(Loggable(run)),
           NEW records \in Seq(Loggable(run))
    PROVE  Appended(file, records) \in Seq(Loggable(run))
<1>1. file \o records \in Seq(Loggable(run))  BY ConcatProperties
<1>2. ASSUME records # <<>>, file # <<>>
      PROVE  Front(file) \o <<Glued>> \o Tail(records) \in Seq(Loggable(run))
    <2>1. \A i \in 1..Len(file) : file[i] \in Loggable(run)  BY ElementOfSeq
    <2>2. Len(file) \in Nat \ {0}  BY <1>2, EmptySeq
    <2>3. 1 \in Int /\ Len(file) - 1 \in Int  BY <2>2
    <2>4. \A i \in 1..Len(file) - 1 : file[i] \in Loggable(run)  BY <2>1, <2>2
    <2>5. SubSeq(file, 1, Len(file) - 1) \in Seq(Loggable(run))
        BY <2>3, <2>4, SubSeqProperties
    <2>6. <<Glued>> \in Seq(Loggable(run))  BY SpecialRecords
    <2>7. Tail(records) \in Seq(Loggable(run))  BY <1>2, HeadTailProperties
    <2>8. Front(file) = SubSeq(file, 1, Len(file) - 1)  BY DEF Front
    <2>9. Front(file) \o <<Glued>> \in Seq(Loggable(run))
        BY <2>5, <2>6, <2>8, ConcatProperties
    <2> QED  BY <2>7, <2>9, ConcatProperties
<1> QED  BY <1>1, <1>2 DEF Appended

LEMMA StoppedType ==
    ASSUME NEW run \in Nat, NEW file \in Seq(Loggable(run)),
           NEW records \in Seq(Loggable(run))
    PROVE  \A w \in Stopped(file, records) : w \in Seq(Loggable(run))
<1> DEFINE Prefix(k) == SubSeq(records, 1, k)
           Written(k) == Appended(file, Prefix(k))
<1>1. \A k \in 0..Len(records) : Prefix(k) \in Seq(Loggable(run))
    <2> TAKE k \in 0..Len(records)
    <2>1. \A i \in 1..Len(records) : records[i] \in Loggable(run)  BY ElementOfSeq
    <2>2. Len(records) \in Nat  BY LenProperties
    <2>3. \A i \in 1..k : records[i] \in Loggable(run)  BY <2>1, <2>2
    <2>4. 1 \in Int /\ k \in Int  BY <2>2
    <2> QED  BY <2>3, <2>4, SubSeqProperties
<1> HIDE DEF Prefix
<1>2. \A k \in 0..Len(records) : Written(k) \in Seq(Loggable(run))
    BY <1>1, AppendedType
<1>3. \A f \in Seq(Loggable(run)) : Append(f, Torn) \in Seq(Loggable(run))
    BY SpecialRecords, AppendProperties
<1>4. \A w \in Stopped(file, records) :
          \/ \E k \in 0..Len(records) : w = Written(k)
          \/ \E k \in 0..Len(records) : w = Append(Written(k), Torn)
    BY DEF Stopped, Prefix
<1> HIDE DEF Written
<1> QED  BY <1>2, <1>3, <1>4

----------------------------------------------------------------------------
\* What the queues and the storage calls do, field by field.

LEMMA Bounds ==
    /\ MaxOps \in Nat /\ MaxSchemaChanges \in Nat /\ MaxFailures \in Nat
    /\ MaxRestarts \in Nat
BY PersistenceAssumption

LEMMA OpFields == \A o \in Op : o.run \in 0..MaxRestarts /\ o.seq \in 1..MaxOps
BY DEF Op

LEMMA EmptyValues ==
    /\ Nothing \in Queue /\ Idle \in Checkpoint /\ EmptyStorage \in Storage
    /\ Nothing.ops = {} /\ ~Nothing.db /\ ~Nothing.dbDrop /\ ~Nothing.meta
    /\ ~Nothing.collDrop
    /\ Idle.phase = "idle" /\ Idle.ops = {} /\ Idle.cursor = 0
BY Bounds DEF Nothing, Queue, Idle, Checkpoint, EmptyStorage, Storage

\* The changes that clients queue.
LEMMA QueueOpFields ==
    ASSUME NEW p \in Queue, NEW o \in Op
    PROVE  LET q == QueueOp(p, o) IN
           /\ q \in Queue /\ q.ops = p.ops \cup {o}
           /\ q.db = p.db /\ q.dbDrop = p.dbDrop
           /\ q.meta = p.meta /\ q.collDrop = p.collDrop
BY DEF Queue, QueueOp

LEMMA QueueDatabaseFields ==
    ASSUME NEW p \in Queue
    PROVE  LET q == QueueDatabase(p) IN
           /\ q \in Queue /\ q.ops = p.ops /\ q.db /\ ~q.dbDrop
           /\ q.meta = p.meta /\ q.collDrop = p.collDrop
BY DEF Queue, QueueDatabase

LEMMA QueueDatabaseDropFields ==
    ASSUME NEW p
    PROVE  LET q == QueueDatabaseDrop(p) IN
           /\ q \in Queue /\ q.ops = {} /\ ~q.db /\ q.dbDrop
           /\ ~q.meta /\ ~q.collDrop
BY DEF Queue, QueueDatabaseDrop, Nothing

LEMMA QueueMetaFields ==
    ASSUME NEW p \in Queue
    PROVE  LET q == QueueMeta(p) IN
           /\ q \in Queue /\ q.ops = p.ops /\ q.db = p.db /\ q.dbDrop = p.dbDrop
           /\ q.meta /\ q.collDrop = p.collDrop
BY DEF Queue, QueueMeta

LEMMA QueueCollectionDropFields ==
    ASSUME NEW p \in Queue
    PROVE  LET q == QueueCollectionDrop(p) IN
           /\ q \in Queue /\ q.ops = {} /\ q.db = p.db /\ q.dbDrop = p.dbDrop
           /\ ~q.meta /\ q.collDrop
BY DEF Queue, QueueCollectionDrop

LEMMA RequeuedFields ==
    ASSUME NEW p \in Queue, NEW b \in Queue
    PROVE  LET q == Requeued(p, b) IN
           /\ q \in Queue /\ q.ops = b.ops \cup p.ops
           /\ q.db = (p.db \/ b.db) /\ q.dbDrop = (p.dbDrop \/ b.dbDrop)
           /\ q.meta = (p.meta \/ b.meta) /\ q.collDrop = (p.collDrop \/ b.collDrop)
BY DEF Queue, Requeued

\* The calls.
LEMMA CallsOfMembers ==
    ASSUME NEW b \in Queue
    PROVE  /\ CallsOf(b) \subseteq CallNames
           /\ "deleteDb" \in CallsOf(b) <=> b.dbDrop
           /\ "tombDb" \in CallsOf(b) <=> b.dbDrop
           /\ "deleteColl" \in CallsOf(b) <=> b.collDrop
           /\ "tombColl" \in CallsOf(b) <=> b.collDrop
           /\ "untombDb" \in CallsOf(b) <=> b.db
           /\ "untombColl" \in CallsOf(b) <=> b.meta
           /\ "journal" \in CallsOf(b) <=> b.ops # {}
           /\ "truncate" \notin CallsOf(b)
BY DEF CallsOf, If, CallNames, Queue

LEMMA StoredFields ==
    ASSUME NEW s \in Storage, NEW calls \in SUBSET CallNames, NEW b \in Queue
    PROVE  LET t == Stored(s, calls, b)
               wiped == "deleteDb" \in calls \/ "deleteColl" \in calls IN
           /\ t \in Storage
           /\ t.dbTomb = ("untombDb" \notin calls /\ ("tombDb" \in calls \/ s.dbTomb))
           /\ t.collTomb = ("untombColl" \notin calls
                  /\ ("tombColl" \in calls \/ (s.collTomb /\ "deleteDb" \notin calls)))
           /\ wiped => t.snap = {} /\ t.cursor = 0
           /\ ~wiped => t.snap = s.snap /\ t.cursor = s.cursor
           /\ "journal" \in calls => b.ops \subseteq t.journal
           /\ ~wiped => s.journal \subseteq t.journal
           /\ t.journal \subseteq s.journal \cup b.ops
           /\ t.snap \subseteq s.snap
<1> DEFINE t == Stored(s, calls, b)
<1>1. /\ s.dbTomb \in BOOLEAN /\ s.collTomb \in BOOLEAN /\ s.journal \subseteq Op
      /\ s.snap \subseteq Op /\ s.cursor \in 0..MaxOps /\ b.ops \subseteq Op
    BY DEF Storage, Queue
<1>2. DOMAIN t = {"dbTomb", "collTomb", "journal", "snap", "cursor"}  BY DEF Stored
<1>3. /\ t.dbTomb = ("untombDb" \notin calls /\ ("tombDb" \in calls \/ s.dbTomb))
      /\ t.collTomb = ("untombColl" \notin calls
             /\ ("tombColl" \in calls \/ (s.collTomb /\ "deleteDb" \notin calls)))
    BY <1>1 DEF Stored
<1> DEFINE wiped == calls \cap {"deleteDb", "deleteColl"} # {}
<1>4. /\ t.journal = (IF wiped THEN {} ELSE s.journal) \cup If("journal" \in calls, b.ops)
      /\ t.snap = IF wiped THEN {} ELSE s.snap
      /\ t.cursor = IF wiped THEN 0 ELSE s.cursor
    BY DEF Stored
<1>5. wiped <=> "deleteDb" \in calls \/ "deleteColl" \in calls  OBVIOUS
<1>6. t \in Storage
    <2>1. /\ t.dbTomb \in BOOLEAN /\ t.collTomb \in BOOLEAN /\ t.journal \subseteq Op
          /\ t.snap \subseteq Op /\ t.cursor \in 0..MaxOps
        BY <1>1, <1>3, <1>4, Bounds DEF If
    <2> QED  BY <2>1 DEF Stored, Storage
<1> HIDE DEF t, wiped
<1>7. /\ "journal" \in calls => b.ops \subseteq t.journal
      /\ ~wiped => s.journal \subseteq t.journal
      /\ t.journal \subseteq s.journal \cup b.ops
      /\ t.snap \subseteq s.snap
    BY <1>4 DEF If
<1>8. /\ wiped => t.snap = {} /\ t.cursor = 0
      /\ ~wiped => t.snap = s.snap /\ t.cursor = s.cursor
    BY <1>4
<1> QED  BY <1>3, <1>5, <1>6, <1>7, <1>8 DEF t

LEMMA LatestFields ==
    ASSUME NEW s \in Storage, NEW c \in Checkpoint
    PROVE  LET t == Latest(s, c) IN
           /\ t \in Storage /\ t.dbTomb = s.dbTomb /\ t.collTomb = s.collTomb
           /\ t.journal = s.journal /\ t.snap = c.ops /\ t.cursor = c.cursor
BY DEF Storage, Checkpoint, Latest

\* The call that is next comes before every other one.
LEMMA StageFacts ==
    /\ Stage["deleteDb"] = 1 /\ Stage["tombDb"] = 2 /\ Stage["deleteColl"] = 3
    /\ Stage["tombColl"] = 4 /\ Stage["untombDb"] = 5 /\ Stage["untombColl"] = 6
    /\ Stage["journal"] = 7 /\ Stage["truncate"] = 8
BY DEF Stage

----------------------------------------------------------------------------
\* What a restart finds.

LEMMA RestoredFacts ==
    ASSUME NEW s \in Storage
    PROVE  LET r == Restored(s) IN
           /\ r.dbGone = s.dbTomb /\ r.collGone = s.collTomb
           /\ r.ops \subseteq s.snap \cup s.journal
           /\ r.dbGone \/ r.collGone => r.ops = {}
           /\ r.seq \in 0..MaxOps
<1> DEFINE r == Restored(s)
           gone == s.dbTomb \/ s.collTomb
           numbers == {0, s.cursor} \cup {o.seq : o \in s.journal}
<1>1. /\ r.dbGone = s.dbTomb /\ r.collGone = s.collTomb
      /\ r.ops = IF gone THEN {} ELSE s.snap \cup {o \in s.journal : o.seq > s.cursor}
      /\ r.seq = IF gone THEN 0 ELSE Max(numbers)
    BY DEF Restored
<1>2. numbers \subseteq Nat /\ numbers # {} /\ \A n \in numbers : n <= MaxOps
    <2>1. s.cursor \in 0..MaxOps /\ s.journal \subseteq Op  BY DEF Storage
    <2>2. \A o \in s.journal : o.seq \in 0..MaxOps  BY <2>1, OpFields, Bounds
    <2> QED  BY <2>1, <2>2, Bounds
<1>3. Max(numbers) \in numbers
    <2> HIDE DEF numbers
    <2> QED  BY <1>2, Bounds, MaxOfNats
<1>4. Max(numbers) \in 0..MaxOps
    <2> HIDE DEF numbers
    <2>1. \A n \in numbers : n \in 0..MaxOps  BY <1>2, Bounds
    <2> QED  BY <1>3, <2>1
<1>5. r.seq \in 0..MaxOps
    <2> HIDE DEF numbers, r
    <2> QED  BY <1>1, <1>4, Bounds
<1>6. /\ r.ops \subseteq s.snap \cup s.journal
      /\ r.dbGone \/ r.collGone => r.ops = {}
    <2> HIDE DEF numbers, r
    <2> QED  BY <1>1
<1> HIDE DEF r
<1> QED  BY <1>1, <1>5, <1>6 DEF r

LEMMA RecoveredFacts ==
    ASSUME Fields, LogsOk, RunsOk
    PROVE  /\ Recovered.dbGone \in BOOLEAN /\ Recovered.collGone \in BOOLEAN
           /\ Recovered.ops \subseteq Op /\ Recovered.seq \in 0..MaxOps
           /\ \A o \in Recovered.ops : o.run <= boots
           /\ Recovered.ok => \A r \in Range(wal) : r.type # "glued"
           /\ (\A r \in Range(wal) : r.type = "ops") =>
                  /\ Recovered.dbGone = s3.dbTomb /\ Recovered.collGone = s3.collTomb
                  /\ Recovered.dbGone \/ Recovered.collGone => Recovered.ops = {}
<1> DEFINE stored == Restored(s3)
           dbGone(i) == Gone(i, "dropDatabase", "database", stored.dbGone)
           collGone(i) == Gone(i, "dropCollection", "meta", stored.collGone)
           applied == {i \in DOMAIN wal : /\ wal[i].type = "ops" /\ Kept(i)
                                          /\ ~dbGone(i) /\ ~collGone(i)}
           numbers == {stored.seq} \cup {r.op.seq : r \in Range(wal)}
<1>1. /\ Recovered.dbGone = dbGone(Len(wal) + 1)
      /\ Recovered.collGone = collGone(Len(wal) + 1)
      /\ Recovered.ops = {o \in stored.ops : Kept(0)} \cup {wal[i].op : i \in applied}
      /\ Recovered.seq = Max(numbers)
      /\ Recovered.ok = \A i \in DOMAIN wal : /\ wal[i].type # "glued"
                                              /\ wal[i].type = "meta" => ~dbGone(i)
    BY DEF Recovered
<1>2. /\ stored.dbGone = s3.dbTomb /\ stored.collGone = s3.collTomb
      /\ stored.ops \subseteq s3.snap \cup s3.journal
      /\ stored.dbGone \/ stored.collGone => stored.ops = {}
      /\ stored.seq \in 0..MaxOps
    BY RestoredFacts DEF Fields
<1>3. s3.dbTomb \in BOOLEAN /\ s3.collTomb \in BOOLEAN /\ s3.snap \subseteq Op
      /\ s3.journal \subseteq Op
    BY DEF Fields, Storage
<1>4. DOMAIN wal = 1..Len(wal) /\ Len(wal) \in Nat  BY LenProperties DEF LogsOk
<1>5. \A i \in DOMAIN wal : wal[i] \in Loggable(boots)  BY <1>4, ElementOfSeq DEF LogsOk
<1>6. \A i \in DOMAIN wal : wal[i] \in Range(wal)  BY DEF Range
<1>7. \A r \in Range(wal) : r \in Loggable(boots)  BY <1>5 DEF Range
<1> HIDE DEF stored
<1>8. Recovered.dbGone \in BOOLEAN /\ Recovered.collGone \in BOOLEAN
    BY <1>1, <1>2, <1>3 DEF Gone
<1>9. Recovered.ops \subseteq Op /\ \A o \in Recovered.ops : o.run <= boots
    <2>1. \A i \in applied : wal[i].op \in Op /\ wal[i].op.run <= boots
        BY <1>5 DEF Loggable
    <2>2. \A o \in stored.ops : o \in Op /\ o.run <= boots
        BY <1>2, <1>3 DEF RunsOk, Ops
    <2> HIDE DEF applied
    <2> QED  BY <1>1, <2>1, <2>2
<1>10. Recovered.seq \in 0..MaxOps
    <2>1. \A r \in Range(wal) : r.op.seq \in 0..MaxOps
        <3>1. \A r \in Range(wal) : r.op \in Op \cup {NoOp}
            BY <1>7 DEF Loggable, Record
        <3> QED  BY <3>1, OpFields, Bounds DEF NoOp
    <2>2. numbers \subseteq Nat /\ numbers # {} /\ \A n \in numbers : n <= MaxOps
        BY <1>2, <2>1, Bounds
    <2> HIDE DEF numbers
    <2>3. Max(numbers) \in numbers  BY <2>2, Bounds, MaxOfNats
    <2>4. \A n \in numbers : n \in 0..MaxOps  BY <2>2, Bounds
    <2> QED  BY <1>1, <2>3, <2>4
<1>11. Recovered.ok => \A r \in Range(wal) : r.type # "glued"
    BY <1>1 DEF Range
<1>12. ASSUME \A r \in Range(wal) : r.type = "ops"
       PROVE  /\ Recovered.dbGone = s3.dbTomb /\ Recovered.collGone = s3.collTomb
              /\ Recovered.dbGone \/ Recovered.collGone => Recovered.ops = {}
    <2>1. \A i \in 1..Len(wal) : wal[i].type = "ops"  BY <1>4, <1>6, <1>12
    <2>2. ASSUME NEW i \in 1..Len(wal) + 1
          PROVE  dbGone(i) = s3.dbTomb /\ collGone(i) = s3.collTomb
        <3>1. \A j \in 1..i-1 : wal[j].type = "ops"  BY <1>4, <2>1
        <3> QED  BY <1>2, <1>3, <3>1 DEF Gone
    <2>3. Len(wal) + 1 \in 1..Len(wal) + 1  BY <1>4
    <2>4. Recovered.dbGone = s3.dbTomb /\ Recovered.collGone = s3.collTomb
        <3> HIDE DEF dbGone, collGone
        <3> QED  BY <1>1, <2>2, <2>3
    <2>5. ASSUME s3.dbTomb \/ s3.collTomb PROVE Recovered.ops = {}
        <3>1. \A i \in 1..Len(wal) : i \in 1..Len(wal) + 1  BY <1>4
        <3>2. applied = {}
            <4> HIDE DEF dbGone, collGone
            <4> QED  BY <1>4, <2>2, <2>5, <3>1
        <3>3. stored.ops = {}  BY <1>2, <2>5
        <3> HIDE DEF applied
        <3> QED  BY <1>1, <3>2, <3>3
    <2> QED  BY <2>4, <2>5
<1> HIDE DEF dbGone, collGone, applied, numbers
<1> QED  BY <1>8, <1>9, <1>10, <1>11, <1>12

----------------------------------------------------------------------------
\* Types, the runs that operations belong to, and what a stopped process holds.

LEMMA TypedIsTypeOK == Typed => TypeOK
<1> SUFFICES ASSUME Typed PROVE TypeOK  OBVIOUS
<1>1. \A r \in Range(walPend) : r \in Queueable(boots)
    BY ElementsInSet DEF Typed, LogsOk
<1>2. \A r \in Range(walBusy) : r \in Queueable(boots)
    BY ElementsInSet DEF Typed, LogsOk
<1>3. \A r \in Range(wal) : r \in Loggable(boots)
    BY ElementsInSet DEF Typed, LogsOk
<1>4. \A r \in Range(walPend) \cup Range(walBusy) \cup Range(wal) : r \in Record
    BY <1>1, <1>2, <1>3 DEF Queueable, Loggable
<1>5. \A r \in Range(walPend) \cup Range(walBusy) : r.type \in RecordTypes
    BY <1>1, <1>2 DEF Queueable
<1> QED  BY <1>4, <1>5 DEF Typed, Fields, TypeOK, Memory, Storage, Checkpoint

\* Logs that do not change.
LEMMA SameLogs ==
    ASSUME LogsOk, UNCHANGED <<walPend, walBusy, wal, boots>>
    PROVE  LogsOk'
BY DEF LogsOk

LEMMA InsertTyped ==
    ASSUME Typed, Insert
    PROVE  Typed'
<1> DEFINE o == [run |-> boots, seq |-> seq + 1]
<1>1. o \in Op /\ o.run = boots
    BY Bounds DEF Typed, Fields, Insert, Op
<1>2. OpRec(o) \in Queueable(boots)
    <2>1. OpRec(o).op = o /\ OpRec(o).type = "ops"  BY DEF OpRec
    <2>2. OpRec(o) \in Record  BY <1>1 DEF OpRec, Record, RecordTypes
    <2>3. boots <= boots  BY DEF Typed, Fields
    <2> HIDE DEF o
    <2> QED  BY <1>1, <2>1, <2>2, <2>3 DEF Queueable, Loggable, RecordTypes
<1>3. /\ mem' = [mem EXCEPT !.ops = @ \cup {o}] /\ pend' = QueueOp(pend, o)
      /\ walPend' = Append(walPend, OpRec(o)) /\ seq' = seq + 1 /\ seq < MaxOps /\ up
      /\ UNCHANGED <<batch, todo, s3, ckpt, walBusy, wal, up, boots, schema, failures,
                     acked, replayed, lapses>>
    BY DEF Insert
<1> HIDE DEF o
<1>4. pend' \in Queue /\ pend'.ops = pend.ops \cup {o}
    BY <1>1, <1>3, QueueOpFields DEF Typed, Fields
<1>5. mem' \in Memory /\ mem'.ops = mem.ops \cup {o}
    BY <1>1, <1>3 DEF Typed, Fields, Memory
<1>6. Fields'
    <2>1. seq' \in 0..MaxOps  BY <1>3, Bounds DEF Typed, Fields
    <2> QED  BY <1>3, <1>4, <1>5, <2>1 DEF Typed, Fields
<1>7. LogsOk'
    <2>1. walPend' \in Seq(Queueable(boots))
        BY <1>2, <1>3, AppendProperties DEF Typed, LogsOk
    <2> QED  BY <1>3, <2>1 DEF Typed, LogsOk
<1>8. RunsOk'
    <2>1. boots <= boots  BY DEF Typed, Fields
    <2> QED  BY <1>1, <1>3, <1>4, <1>5, <2>1 DEF Typed, RunsOk, Ops
<1>9. DownOk'  BY <1>3 DEF DownOk
<1> QED  BY <1>6, <1>7, <1>8, <1>9 DEF Typed

LEMMA CreateDatabaseTyped ==
    ASSUME Typed, CreateDatabase
    PROVE  Typed'
<1>1. /\ mem' = [mem EXCEPT !.dbGone = FALSE] /\ pend' = QueueDatabase(pend)
      /\ walPend' = Append(walPend, Rec("database"))
      /\ lapses' \subseteq lapses \cup {"withdrawn"}
      /\ schema < MaxSchemaChanges /\ schema' = schema + 1 /\ up
      /\ UNCHANGED <<seq, batch, todo, s3, ckpt, walBusy, wal, up, boots, failures,
                     acked, replayed>>
    BY DEF CreateDatabase, Schema, If
<1>2. pend' \in Queue /\ pend'.ops = pend.ops
    BY <1>1, QueueDatabaseFields DEF Typed, Fields
<1>3. mem' \in Memory /\ mem'.ops = mem.ops  BY <1>1 DEF Typed, Fields, Memory
<1>4. Fields'
    <2>1. schema' \in 0..MaxSchemaChanges  BY <1>1, Bounds DEF Typed, Fields
    <2> QED  BY <1>1, <1>2, <1>3, <2>1 DEF Typed, Fields, Lapses, LeftBehind
<1>5. LogsOk'
    <2>1. Rec("database") \in Queueable(boots)
        BY SpecialRecords DEF Typed, Fields, RecordTypes
    <2>2. walPend' \in Seq(Queueable(boots))
        BY <1>1, <2>1, AppendProperties DEF Typed, LogsOk
    <2> QED  BY <1>1, <2>2 DEF Typed, LogsOk
<1>6. RunsOk'  BY <1>1, <1>2, <1>3 DEF Typed, RunsOk, Ops
<1>7. DownOk'  BY <1>1 DEF DownOk
<1> QED  BY <1>4, <1>5, <1>6, <1>7 DEF Typed

LEMMA RemoveDatabaseTyped ==
    ASSUME Typed, RemoveDatabase
    PROVE  Typed'
<1>1. /\ mem' = [mem EXCEPT !.dbGone = TRUE, !.ops = {}] /\ pend' = QueueDatabaseDrop(pend)
      /\ walPend' = <<Rec("dropDatabase")>> /\ acked' = {}
      /\ lapses' \subseteq lapses \cup {"discarded"}
      /\ schema < MaxSchemaChanges /\ schema' = schema + 1 /\ up
      /\ UNCHANGED <<seq, batch, todo, s3, ckpt, walBusy, wal, up, boots, failures,
                     replayed>>
    BY DEF RemoveDatabase, Schema, If
<1>2. pend' \in Queue /\ pend'.ops = {}  BY <1>1, QueueDatabaseDropFields
<1>3. mem' \in Memory /\ mem'.ops = {}  BY <1>1 DEF Typed, Fields, Memory
<1>4. Fields'
    <2>1. schema' \in 0..MaxSchemaChanges  BY <1>1, Bounds DEF Typed, Fields
    <2> QED  BY <1>1, <1>2, <1>3, <2>1 DEF Typed, Fields, Lapses, LeftBehind
<1>5. LogsOk'
    <2>1. Rec("dropDatabase") \in Queueable(boots)
        BY SpecialRecords DEF Typed, Fields, RecordTypes
    <2> QED  BY <1>1, <2>1 DEF Typed, LogsOk
<1>6. RunsOk'  BY <1>1, <1>2, <1>3 DEF Typed, RunsOk, Ops
<1>7. DownOk'  BY <1>1 DEF DownOk
<1> QED  BY <1>4, <1>5, <1>6, <1>7 DEF Typed

LEMMA CreateCollectionTyped ==
    ASSUME Typed, CreateCollection
    PROVE  Typed'
<1>1. /\ mem' = [mem EXCEPT !.collGone = FALSE]
      /\ \/ UNCHANGED <<pend, walPend>>
         \/ pend' = QueueMeta(pend) /\ walPend' = Append(walPend, Rec("meta"))
      /\ lapses' \subseteq lapses \cup {"unrecorded"}
      /\ schema < MaxSchemaChanges /\ schema' = schema + 1 /\ up
      /\ UNCHANGED <<seq, batch, todo, s3, ckpt, walBusy, wal, up, boots, failures,
                     acked, replayed>>
    BY DEF CreateCollection, Schema, If
<1>2. pend' \in Queue /\ pend'.ops = pend.ops
    BY <1>1, QueueMetaFields DEF Typed, Fields
<1>3. mem' \in Memory /\ mem'.ops = mem.ops  BY <1>1 DEF Typed, Fields, Memory
<1>4. Fields'
    <2>1. schema' \in 0..MaxSchemaChanges  BY <1>1, Bounds DEF Typed, Fields
    <2> QED  BY <1>1, <1>2, <1>3, <2>1 DEF Typed, Fields, Lapses, LeftBehind
<1>5. LogsOk'
    <2>1. Rec("meta") \in Queueable(boots)
        BY SpecialRecords DEF Typed, Fields, RecordTypes
    <2>2. walPend' \in Seq(Queueable(boots))
        BY <1>1, <2>1, AppendProperties DEF Typed, LogsOk
    <2> QED  BY <1>1, <2>2 DEF Typed, LogsOk
<1>6. RunsOk'  BY <1>1, <1>2, <1>3 DEF Typed, RunsOk, Ops
<1>7. DownOk'  BY <1>1 DEF DownOk
<1> QED  BY <1>4, <1>5, <1>6, <1>7 DEF Typed

LEMMA RemoveCollectionTyped ==
    ASSUME Typed, RemoveCollection
    PROVE  Typed'
<1>1. /\ mem' = [mem EXCEPT !.collGone = TRUE, !.ops = {}]
      /\ pend' = QueueCollectionDrop(pend)
      /\ walPend' = Append(WithoutCollection(walPend), Rec("dropCollection"))
      /\ acked' = {} /\ schema < MaxSchemaChanges /\ schema' = schema + 1 /\ up
      /\ UNCHANGED <<seq, batch, todo, s3, ckpt, walBusy, wal, up, boots, failures,
                     replayed, lapses>>
    BY DEF RemoveCollection, Schema
<1>2. pend' \in Queue /\ pend'.ops = {}
    BY <1>1, QueueCollectionDropFields DEF Typed, Fields
<1>3. mem' \in Memory /\ mem'.ops = {}  BY <1>1 DEF Typed, Fields, Memory
<1>4. Fields'
    <2>1. schema' \in 0..MaxSchemaChanges  BY <1>1, Bounds DEF Typed, Fields
    <2> QED  BY <1>1, <1>2, <1>3, <2>1 DEF Typed, Fields
<1>5. LogsOk'
    <2>1. Rec("dropCollection") \in Queueable(boots)
        BY SpecialRecords DEF Typed, Fields, RecordTypes
    <2>2. WithoutCollection(walPend) \in Seq(Queueable(boots))
        BY WithoutCollectionType DEF Typed, LogsOk
    <2>3. walPend' \in Seq(Queueable(boots))
        BY <1>1, <2>1, <2>2, AppendProperties
    <2> QED  BY <1>1, <2>3 DEF Typed, LogsOk
<1>6. RunsOk'  BY <1>1, <1>2, <1>3 DEF Typed, RunsOk, Ops
<1>7. DownOk'  BY <1>1 DEF DownOk
<1> QED  BY <1>4, <1>5, <1>6, <1>7 DEF Typed

LEMMA StartFlushTyped ==
    ASSUME Typed, StartFlush
    PROVE  Typed'
<1>1. /\ up /\ batch' = pend /\ pend' = Nothing /\ todo' = CallsOf(pend)
      /\ UNCHANGED <<mem, seq, s3, ckpt, walPend, walBusy, wal, up, boots, schema,
                     failures, acked, replayed, lapses>>
    BY DEF StartFlush, TakeBatch
<1>2. Fields'
    BY <1>1, EmptyValues, CallsOfMembers DEF Typed, Fields
<1>3. LogsOk'  BY <1>1 DEF Typed, LogsOk
<1>4. RunsOk'  BY <1>1, EmptyValues DEF Typed, RunsOk, Ops
<1>5. DownOk'  BY <1>1 DEF DownOk
<1> QED  BY <1>2, <1>3, <1>4, <1>5 DEF Typed

\* A call of the flush, whether it is reported as failed or not.
LEMMA CallStored ==
    ASSUME Typed, NEW call \in todo
    PROVE  /\ Stored(s3, {call}, batch) \in Storage
           /\ \A o \in Stored(s3, {call}, batch).journal : o.run <= boots
           /\ \A o \in Stored(s3, {call}, batch).snap : o.run <= boots
<1> DEFINE t == Stored(s3, {call}, batch)
<1>1. {call} \subseteq CallNames  BY DEF Typed, Fields
<1>2. t \in Storage /\ t.journal \subseteq s3.journal \cup batch.ops /\ t.snap \subseteq s3.snap
    BY <1>1, StoredFields DEF Typed, Fields
<1> HIDE DEF t
<1>3. \A o \in t.journal \cup t.snap : o.run <= boots
    BY <1>2 DEF Typed, RunsOk, Ops
<1> QED  BY <1>2, <1>3 DEF t

LEMMA FlushCallTyped ==
    ASSUME Typed, FlushCall
    PROVE  Typed'
<1>1. PICK call \in todo :
        /\ up /\ s3' = Stored(s3, {call}, batch)
        /\ wal' = IF call = "truncate" THEN <<>> ELSE wal
        /\ todo' = IF todo = {call} /\ call # "truncate" /\ MayTruncate
                   THEN {"truncate"} ELSE todo \ {call}
        /\ batch' = IF todo' = {} THEN Nothing ELSE batch
        /\ UNCHANGED <<mem, seq, pend, ckpt, walPend, walBusy, up, boots, schema,
                       failures, acked, replayed, lapses>>
    BY DEF FlushCall
<1>2. /\ s3' \in Storage /\ \A o \in s3'.journal : o.run <= boots
      /\ \A o \in s3'.snap : o.run <= boots
    BY <1>1, CallStored
<1>3. todo' \subseteq CallNames  BY <1>1 DEF Typed, Fields, CallNames
<1>4. batch' \in Queue /\ batch'.ops \subseteq batch.ops
    BY <1>1, EmptyValues DEF Typed, Fields
<1>5. Fields'  BY <1>1, <1>2, <1>3, <1>4 DEF Typed, Fields
<1>6. LogsOk'
    <2>1. wal' \in Seq(Loggable(boots))  BY <1>1, EmptySeq DEF Typed, LogsOk
    <2> QED  BY <1>1, <2>1 DEF Typed, LogsOk
<1>7. RunsOk'  BY <1>1, <1>2, <1>4 DEF Typed, RunsOk, Ops
<1>8. DownOk'  BY <1>1 DEF DownOk
<1> QED  BY <1>5, <1>6, <1>7, <1>8 DEF Typed

LEMMA FailFlushTyped ==
    ASSUME Typed, FailFlush
    PROVE  Typed'
<1>1. PICK call \in todo :
        /\ up /\ failures < MaxFailures /\ failures' = failures + 1
        /\ s3' \in {s3, Stored(s3, {call}, batch)}
        /\ wal' \in {wal, <<>>}
        /\ pend' = Requeued(pend, batch) /\ batch' = Nothing /\ todo' = {}
        /\ ckpt' \in {ckpt, Idle}
        /\ lapses' \subseteq lapses \cup {"requeued"}
        /\ UNCHANGED <<mem, seq, walPend, walBusy, up, boots, schema, acked, replayed>>
    BY DEF FailFlush, If
<1>2. /\ s3' \in Storage /\ \A o \in s3'.journal : o.run <= boots
      /\ \A o \in s3'.snap : o.run <= boots
    BY <1>1, CallStored DEF Typed, Fields, RunsOk, Ops
<1>3. pend' \in Queue /\ pend'.ops = batch.ops \cup pend.ops
    BY <1>1, RequeuedFields DEF Typed, Fields
<1>4. batch' \in Queue /\ batch'.ops = {}  BY <1>1, EmptyValues
<1>5. ckpt' \in Checkpoint /\ ckpt'.ops \subseteq ckpt.ops
    BY <1>1, EmptyValues DEF Typed, Fields
<1>6. failures' \in 0..MaxFailures  BY <1>1, Bounds DEF Typed, Fields
<1>7. Fields'  BY <1>1, <1>2, <1>3, <1>4, <1>5, <1>6
    DEF Typed, Fields, CallNames, Lapses, LeftBehind
<1>8. LogsOk'
    <2>1. wal' \in Seq(Loggable(boots))  BY <1>1, EmptySeq DEF Typed, LogsOk
    <2> QED  BY <1>1, <2>1 DEF Typed, LogsOk
<1>9. RunsOk'  BY <1>1, <1>2, <1>3, <1>4, <1>5 DEF Typed, RunsOk, Ops
<1>10. DownOk'  BY <1>1 DEF DownOk
<1> QED  BY <1>7, <1>8, <1>9, <1>10 DEF Typed

LEMMA RequestCheckpointTyped ==
    ASSUME Typed, RequestCheckpoint
    PROVE  Typed'
<1>1. /\ up /\ ckpt' = [Idle EXCEPT !.phase = "flushing"]
      /\ \/ batch' = pend /\ pend' = Nothing /\ todo' = CallsOf(pend)
         \/ UNCHANGED <<pend, batch, todo>>
      /\ UNCHANGED <<mem, seq, s3, walPend, walBusy, wal, up, boots, schema,
                     failures, acked, replayed, lapses>>
    BY DEF RequestCheckpoint, TakeBatch
<1>2. ckpt' \in Checkpoint /\ ckpt'.ops = {}
    BY <1>1, Bounds DEF Idle, Checkpoint
<1>3. /\ pend' \in Queue /\ batch' \in Queue /\ todo' \subseteq CallNames
      /\ pend'.ops \cup batch'.ops \subseteq pend.ops \cup batch.ops
    BY <1>1, EmptyValues, CallsOfMembers DEF Typed, Fields
<1>4. Fields'  BY <1>1, <1>2, <1>3 DEF Typed, Fields
<1>5. LogsOk'  BY <1>1 DEF Typed, LogsOk
<1>6. RunsOk'  BY <1>1, <1>2, <1>3 DEF Typed, RunsOk, Ops
<1>7. DownOk'  BY <1>1 DEF DownOk
<1> QED  BY <1>4, <1>5, <1>6, <1>7 DEF Typed

LEMMA PauseFlushesTyped ==
    ASSUME Typed, PauseFlushes
    PROVE  Typed'
<1>1. /\ up /\ ckpt' \in {Idle, [phase |-> "reading", ops |-> {}, cursor |-> seq]}
      /\ UNCHANGED <<mem, seq, pend, batch, todo, s3, walPend, walBusy, wal, up, boots,
                     schema, failures, acked, replayed, lapses>>
    BY DEF PauseFlushes
<1>2. ckpt' \in Checkpoint /\ ckpt'.ops = {}
    BY <1>1, EmptyValues DEF Checkpoint, Typed, Fields
<1>3. Fields'  BY <1>1, <1>2 DEF Typed, Fields
<1>4. LogsOk'  BY <1>1 DEF Typed, LogsOk
<1>5. RunsOk'  BY <1>1, <1>2 DEF Typed, RunsOk, Ops
<1>6. DownOk'  BY <1>1 DEF DownOk
<1> QED  BY <1>3, <1>4, <1>5, <1>6 DEF Typed

LEMMA ReadSegmentsTyped ==
    ASSUME Typed, ReadSegments
    PROVE  Typed'
<1>1. /\ up /\ ckpt' = [ckpt EXCEPT !.phase = "latest", !.ops = mem.ops]
      /\ UNCHANGED <<mem, seq, pend, batch, todo, s3, walPend, walBusy, wal, up, boots,
                     schema, failures, acked, replayed, lapses>>
    BY DEF ReadSegments
<1>2. ckpt' \in Checkpoint /\ ckpt'.ops = mem.ops
    BY <1>1 DEF Checkpoint, Typed, Fields, Memory
<1>3. Fields'  BY <1>1, <1>2 DEF Typed, Fields
<1>4. LogsOk'  BY <1>1 DEF Typed, LogsOk
<1>5. RunsOk'  BY <1>1, <1>2 DEF Typed, RunsOk, Ops
<1>6. DownOk'  BY <1>1 DEF DownOk
<1> QED  BY <1>3, <1>4, <1>5, <1>6 DEF Typed

LEMMA WriteLatestTyped ==
    ASSUME Typed, WriteLatest
    PROVE  Typed'
<1>1. /\ up /\ ckpt' = [ckpt EXCEPT !.phase = "compact"] /\ s3' = Latest(s3, ckpt)
      /\ UNCHANGED <<mem, seq, pend, batch, todo, walPend, walBusy, wal, up, boots,
                     schema, failures, acked, replayed, lapses>>
    BY DEF WriteLatest
<1>2. ckpt' \in Checkpoint /\ ckpt'.ops = ckpt.ops
    BY <1>1 DEF Checkpoint, Typed, Fields
<1>3. s3' \in Storage /\ s3'.journal = s3.journal /\ s3'.snap = ckpt.ops
    BY <1>1, LatestFields DEF Typed, Fields
<1>4. Fields'  BY <1>1, <1>2, <1>3 DEF Typed, Fields
<1>5. LogsOk'  BY <1>1 DEF Typed, LogsOk
<1>6. RunsOk'  BY <1>1, <1>2, <1>3 DEF Typed, RunsOk, Ops
<1>7. DownOk'  BY <1>1 DEF DownOk
<1> QED  BY <1>4, <1>5, <1>6, <1>7 DEF Typed

LEMMA CompactJournalsTyped ==
    ASSUME Typed, CompactJournals
    PROVE  Typed'
<1>1. /\ up /\ ckpt' = Idle
      /\ s3' = [s3 EXCEPT !.journal = {o \in @ : o.seq > ckpt.cursor}]
      /\ UNCHANGED <<mem, seq, pend, batch, todo, walPend, walBusy, wal, up, boots,
                     schema, failures, acked, replayed, lapses>>
    BY DEF CompactJournals, Resumed
<1>2. s3' \in Storage /\ s3'.journal \subseteq s3.journal /\ s3'.snap = s3.snap
    BY <1>1 DEF Typed, Fields, Storage
<1>3. Fields'  BY <1>1, <1>2, EmptyValues DEF Typed, Fields
<1>4. LogsOk'  BY <1>1 DEF Typed, LogsOk
<1>5. RunsOk'  BY <1>1, <1>2, EmptyValues DEF Typed, RunsOk, Ops
<1>6. DownOk'  BY <1>1 DEF DownOk
<1> QED  BY <1>3, <1>4, <1>5, <1>6 DEF Typed

LEMMA FailCheckpointTyped ==
    ASSUME Typed, FailCheckpoint
    PROVE  Typed'
<1>1. /\ up /\ ckpt' = Idle /\ s3' \in {s3, Latest(s3, ckpt)}
      /\ failures < MaxFailures /\ failures' = failures + 1
      /\ UNCHANGED <<mem, seq, pend, batch, todo, walPend, walBusy, wal, up, boots,
                     schema, acked, replayed, lapses>>
    BY DEF FailCheckpoint, Resumed
<1>2. s3' \in Storage /\ s3'.journal = s3.journal /\ s3'.snap \subseteq s3.snap \cup ckpt.ops
    BY <1>1, LatestFields DEF Typed, Fields
<1>3. failures' \in 0..MaxFailures  BY <1>1, Bounds DEF Typed, Fields
<1>4. Fields'  BY <1>1, <1>2, <1>3, EmptyValues DEF Typed, Fields
<1>5. LogsOk'  BY <1>1 DEF Typed, LogsOk
<1>6. RunsOk'  BY <1>1, <1>2, EmptyValues DEF Typed, RunsOk, Ops
<1>7. DownOk'  BY <1>1 DEF DownOk
<1> QED  BY <1>4, <1>5, <1>6, <1>7 DEF Typed

LEMMA StartAppendTyped ==
    ASSUME Typed, StartAppend
    PROVE  Typed'
<1>1. /\ up /\ walBusy' = walPend /\ walPend' = <<>>
      /\ UNCHANGED <<mem, seq, pend, batch, todo, s3, ckpt, wal, up, boots, schema,
                     failures, acked, replayed, lapses>>
    BY DEF StartAppend
<1>2. Fields'  BY <1>1 DEF Typed, Fields
<1>3. LogsOk'  BY <1>1, EmptySeq DEF Typed, LogsOk
<1>4. RunsOk'  BY <1>1 DEF Typed, RunsOk, Ops
<1>5. DownOk'  BY <1>1 DEF DownOk
<1> QED  BY <1>2, <1>3, <1>4, <1>5 DEF Typed

LEMMA FinishAppendTyped ==
    ASSUME Typed, FinishAppend
    PROVE  Typed'
<1>1. /\ up /\ wal' = Appended(wal, walBusy) /\ walBusy' = <<>>
      /\ acked' = acked \cup ({r.op : r \in Range(walBusy)} \cap mem.ops)
      /\ UNCHANGED <<mem, seq, pend, batch, todo, s3, ckpt, walPend, up, boots, schema,
                     failures, replayed, lapses>>
    BY DEF FinishAppend
<1>2. acked' \subseteq Op  BY <1>1 DEF Typed, Fields, Memory
<1>3. Fields'  BY <1>1, <1>2 DEF Typed, Fields
<1>4. LogsOk'
    <2>1. boots \in Nat  BY Bounds DEF Typed, Fields
    <2>2. walBusy \in Seq(Loggable(boots))  BY QueueableIsLoggable DEF Typed, LogsOk
    <2>3. wal' \in Seq(Loggable(boots))
        BY <1>1, <2>1, <2>2, AppendedType DEF Typed, LogsOk
    <2> QED  BY <1>1, <2>3, EmptySeq DEF Typed, LogsOk
<1>5. RunsOk'  BY <1>1 DEF Typed, RunsOk, Ops
<1>6. DownOk'  BY <1>1 DEF DownOk
<1> QED  BY <1>3, <1>4, <1>5, <1>6 DEF Typed

LEMMA FailAppendTyped ==
    ASSUME Typed, FailAppend
    PROVE  Typed'
<1>1. /\ up /\ wal' \in Stopped(wal, walBusy)
      /\ walPend' = walBusy \o walPend /\ walBusy' = <<>>
      /\ failures < MaxFailures /\ failures' = failures + 1
      /\ UNCHANGED <<mem, seq, pend, batch, todo, s3, ckpt, up, boots, schema, acked,
                     replayed, lapses>>
    BY DEF FailAppend
<1>2. failures' \in 0..MaxFailures  BY <1>1, Bounds DEF Typed, Fields
<1>3. Fields'  BY <1>1, <1>2 DEF Typed, Fields
<1>4. LogsOk'
    <2>1. boots \in Nat  BY Bounds DEF Typed, Fields
    <2>2. walBusy \in Seq(Loggable(boots))  BY QueueableIsLoggable DEF Typed, LogsOk
    <2>3. wal' \in Seq(Loggable(boots))
        BY <1>1, <2>1, <2>2, StoppedType DEF Typed, LogsOk
    <2>4. walPend' \in Seq(Queueable(boots))
        BY <1>1, ConcatProperties DEF Typed, LogsOk
    <2> QED  BY <1>1, <2>3, <2>4, EmptySeq DEF Typed, LogsOk
<1>5. RunsOk'  BY <1>1 DEF Typed, RunsOk, Ops
<1>6. DownOk'  BY <1>1 DEF DownOk
<1> QED  BY <1>3, <1>4, <1>5, <1>6 DEF Typed

LEMMA CrashTyped ==
    ASSUME Typed, Crash
    PROVE  Typed'
<1>1. /\ boots < MaxRestarts /\ wal' \in Stopped(wal, walBusy)
      /\ mem' = [dbGone |-> FALSE, collGone |-> FALSE, ops |-> {}]
      /\ seq' = 0 /\ pend' = Nothing /\ batch' = Nothing /\ todo' = {} /\ ckpt' = Idle
      /\ walPend' = <<>> /\ walBusy' = <<>> /\ up' = FALSE
      /\ UNCHANGED <<s3, boots, schema, failures, acked, replayed, lapses>>
    BY DEF Crash
<1>2. mem' \in Memory /\ mem'.ops = {}  BY <1>1 DEF Memory
<1>3. Fields'
    <2>1. seq' \in 0..MaxOps /\ pend' \in Queue /\ batch' \in Queue
        BY <1>1, EmptyValues, Bounds
    <2>2. ckpt' \in Checkpoint /\ todo' \subseteq CallNames  BY <1>1, EmptyValues
    <2> QED  BY <1>1, <1>2, <2>1, <2>2 DEF Typed, Fields
<1>4. LogsOk'
    <2>1. boots \in Nat  BY Bounds DEF Typed, Fields
    <2>2. walBusy \in Seq(Loggable(boots))  BY QueueableIsLoggable DEF Typed, LogsOk
    <2>3. wal' \in Seq(Loggable(boots))
        BY <1>1, <2>1, <2>2, StoppedType DEF Typed, LogsOk
    <2> QED  BY <1>1, <2>3, EmptySeq DEF LogsOk
<1>5. RunsOk'  BY <1>1, <1>2, EmptyValues DEF Typed, RunsOk, Ops
<1>6. DownOk'  BY <1>1, <1>2 DEF DownOk
<1> QED  BY <1>3, <1>4, <1>5, <1>6 DEF Typed

LEMMA RestartTyped ==
    ASSUME Typed, Restart
    PROVE  Typed'
<1>1. /\ ~up /\ Recovered.ok /\ up' = TRUE /\ boots' = boots + 1
      /\ mem' = [dbGone |-> Recovered.dbGone, collGone |-> Recovered.collGone,
                 ops |-> Recovered.ops]
      /\ seq' = Recovered.seq
      /\ replayed' = replayed \cup {r.type : r \in Range(wal)}
      /\ lapses' \subseteq lapses \cup {"renumbered", "skipped"}
      /\ UNCHANGED <<pend, batch, todo, s3, ckpt, walPend, walBusy, wal, schema, failures,
                     acked>>
    BY DEF Restart, If
<1>2. /\ Recovered.dbGone \in BOOLEAN /\ Recovered.collGone \in BOOLEAN
      /\ Recovered.ops \subseteq Op /\ Recovered.seq \in 0..MaxOps
      /\ \A o \in Recovered.ops : o.run <= boots
      /\ \A r \in Range(wal) : r.type # "glued"
    BY <1>1, RecoveredFacts DEF Typed
<1>3. boots \in Nat /\ boots' \in 0..MaxRestarts
    <2>1. boots < MaxRestarts  BY <1>1 DEF Typed, DownOk
    <2> QED  BY <1>1, <2>1, Bounds DEF Typed, Fields
<1>4. mem' \in Memory /\ mem'.ops = Recovered.ops  BY <1>1, <1>2 DEF Memory
<1>5. replayed' \subseteq RecordTypes \cup {"torn"}
    <2>1. \A r \in Range(wal) : r \in Loggable(boots)
        BY ElementsInSet DEF Typed, LogsOk
    <2>2. \A r \in Range(wal) : r.type \in RecordTypes \cup {"torn"}
        BY <1>2, <2>1 DEF Loggable, Record
    <2> QED  BY <1>1, <2>2 DEF Typed, Fields
<1>6. Fields'
    <2>1. lapses' \subseteq Lapses  BY <1>1 DEF Typed, Fields, Lapses, LeftBehind
    <2> QED  BY <1>1, <1>2, <1>3, <1>4, <1>5, <2>1 DEF Typed, Fields
<1>7. LogsOk'
    <2>1. \A r \in Loggable(boots) : r \in Loggable(boots + 1)
        <3>1. \A r \in Record : r.op.run \in Int
            BY OpFields DEF Record, NoOp
        <3> QED  BY <1>3, <3>1 DEF Loggable
    <2>2. wal \in Seq(Loggable(boots + 1))  BY <2>1, SeqMonotonic DEF Typed, LogsOk
    <2>3. walPend = <<>> /\ walBusy = <<>>  BY <1>1 DEF Typed, DownOk
    <2> QED  BY <1>1, <2>2, <2>3, EmptySeq DEF LogsOk
<1>8. RunsOk'
    <2>1. \A o \in Ops' : o \in Recovered.ops \cup Ops  BY <1>1, <1>4 DEF Ops
    <2>2. \A o \in Ops' : o.run <= boots  BY <1>2, <2>1 DEF Typed, RunsOk
    <2>3. Ops' \subseteq Op
        BY <1>6 DEF Ops, Fields, Memory, Queue, Checkpoint, Storage
    <2> QED  BY <1>1, <1>3, <2>2, <2>3, OpFields, Bounds DEF RunsOk
<1>9. DownOk'  BY <1>1 DEF DownOk
<1> QED  BY <1>6, <1>7, <1>8, <1>9 DEF Typed

LEMMA StepTyped ==
    ASSUME Typed, [Next]_vars
    PROVE  Typed'
<1>1. CASE Next
    BY <1>1, InsertTyped, CreateDatabaseTyped, RemoveDatabaseTyped,
       CreateCollectionTyped, RemoveCollectionTyped, StartFlushTyped, FlushCallTyped,
       FailFlushTyped, RequestCheckpointTyped, PauseFlushesTyped, ReadSegmentsTyped,
       WriteLatestTyped, CompactJournalsTyped, FailCheckpointTyped, StartAppendTyped,
       FinishAppendTyped, FailAppendTyped, CrashTyped, RestartTyped
       DEF Next
<1>2. CASE UNCHANGED vars
    <2>1. Fields'  BY <1>2 DEF vars, data, Typed, Fields
    <2>2. LogsOk'  BY <1>2 DEF vars, data, Typed, LogsOk
    <2>3. RunsOk'  BY <1>2 DEF vars, data, Typed, RunsOk, Ops
    <2>4. DownOk'  BY <1>2 DEF vars, data, Typed, DownOk
    <2> QED  BY <2>1, <2>2, <2>3, <2>4 DEF Typed
<1> QED  BY <1>1, <1>2

LEMMA InitTyped == Init => Typed
<1> SUFFICES ASSUME Init PROVE Typed  OBVIOUS
<1>1. Fields
    BY EmptyValues, Bounds DEF Init, Fields, Memory, RecordTypes, Lapses
<1>2. LogsOk  BY EmptySeq DEF Init, LogsOk
<1>3. RunsOk  BY EmptyValues DEF Init, RunsOk, Ops, EmptyStorage
<1>4. DownOk  BY DEF Init, DownOk
<1> QED  BY <1>1, <1>2, <1>3, <1>4 DEF Typed

----------------------------------------------------------------------------
\* The flush: what its calls and its failure do.

\* A batch without calls is empty.
LEMMA CallsOfNothing ==
    ASSUME NEW b \in Queue, CallsOf(b) = {}
    PROVE  b = Nothing
<1>1. ~b.dbDrop /\ ~b.collDrop /\ ~b.db /\ ~b.meta /\ b.ops = {}
    BY CallsOfMembers
<1> QED  BY <1>1 DEF Queue, Nothing

\* The call that is next, and the batch that it belongs to.
LEMMA NextCall ==
    ASSUME Typed, BatchOk, NEW call \in todo, IsNext(call)
    PROVE  /\ call \in {"deleteDb", "deleteColl"} => batch.dbDrop \/ batch.collDrop
           /\ "untombDb" \in todo => batch.db
           /\ "untombColl" \in todo => batch.meta
           /\ call \in {"deleteDb", "deleteColl"} /\ batch.ops # {} => "journal" \in todo
           /\ call = "deleteDb" /\ batch.collDrop => "tombColl" \in todo
           /\ call = "untombDb" => "tombDb" \notin todo
           /\ call = "untombColl" => "tombColl" \notin todo
           /\ ckpt.phase \notin {"reading", "latest", "compact"}
<1>1. batch \in Queue /\ todo \subseteq CallsOf(batch) \cup {"truncate"}
    BY DEF Typed, Fields, BatchOk
<1>2. /\ call \in {"deleteDb", "deleteColl"} => batch.dbDrop \/ batch.collDrop
      /\ "untombDb" \in todo => batch.db
      /\ "untombColl" \in todo => batch.meta
    BY <1>1, CallsOfMembers
<1>3. \A c \in CallsOf(batch) : Stage[call] < Stage[c] => c \in todo  BY DEF BatchOk
<1>4. call \in {"deleteDb", "deleteColl"} /\ batch.ops # {} => "journal" \in todo
    BY <1>1, <1>3, CallsOfMembers, StageFacts
<1>5. call = "deleteDb" /\ batch.collDrop => "tombColl" \in todo
    BY <1>1, <1>3, CallsOfMembers, StageFacts
<1>6. \A other \in todo : Stage[call] <= Stage[other]  BY DEF IsNext
<1>7. /\ call = "untombDb" => "tombDb" \notin todo
      /\ call = "untombColl" => "tombColl" \notin todo
    BY <1>6, StageFacts
<1> QED  BY <1>2, <1>4, <1>5, <1>7 DEF BatchOk

\* One call, field by field.
LEMMA OneCallStored ==
    ASSUME Typed, NEW call \in todo
    PROVE  LET t == Stored(s3, {call}, batch) IN
           /\ t.dbTomb = (call # "untombDb" /\ (call = "tombDb" \/ s3.dbTomb))
           /\ t.collTomb = (call # "untombColl"
                  /\ (call = "tombColl" \/ (s3.collTomb /\ call # "deleteDb")))
           /\ call \in {"deleteDb", "deleteColl"} => t.cursor = 0
           /\ call \notin {"deleteDb", "deleteColl"} =>
                  t.snap = s3.snap /\ t.cursor = s3.cursor /\ s3.journal \subseteq t.journal
           /\ call = "journal" => batch.ops \subseteq t.journal
<1> DEFINE calls == {call}
           t == Stored(s3, calls, batch)
<1>1. calls \in SUBSET CallNames /\ s3 \in Storage /\ batch \in Queue
    BY DEF Typed, Fields
<1>2. \A c : c \in calls <=> c = call  OBVIOUS
<1>3. t = Stored(s3, {call}, batch)  OBVIOUS
<1> HIDE DEF calls
<1>4. /\ t.dbTomb = ("untombDb" \notin calls /\ ("tombDb" \in calls \/ s3.dbTomb))
      /\ t.collTomb = ("untombColl" \notin calls
             /\ ("tombColl" \in calls \/ (s3.collTomb /\ "deleteDb" \notin calls)))
      /\ "deleteDb" \in calls \/ "deleteColl" \in calls => t.cursor = 0
      /\ ~("deleteDb" \in calls \/ "deleteColl" \in calls) =>
             t.snap = s3.snap /\ t.cursor = s3.cursor /\ s3.journal \subseteq t.journal
      /\ "journal" \in calls => batch.ops \subseteq t.journal
    BY <1>1, StoredFields
<1> HIDE DEF t
<1>5. call \in {"deleteDb", "deleteColl"} <=> "deleteDb" \in calls \/ "deleteColl" \in calls
    BY <1>2
<1> QED  BY <1>2, <1>4, <1>5, <1>3

\* The calls that remain after a call, and their batch.
LEMMA FlushCallEffect ==
    ASSUME FlushCall
    PROVE  \E call \in todo :
               /\ IsNext(call) /\ s3' = Stored(s3, {call}, batch)
               /\ todo' \subseteq (todo \ {call}) \cup {"truncate"}
               /\ \A c \in todo : c # call => c \in todo'
               /\ "truncate" \in todo' =>
                      todo' = {"truncate"} \/ ("truncate" \in todo /\ todo' \subseteq todo)
               /\ batch' = IF todo' = {} THEN Nothing ELSE batch
               /\ UNCHANGED <<mem, seq, pend, ckpt, boots, lapses, up, replayed>>
<1>1. PICK call \in todo :
        /\ IsNext(call) /\ s3' = Stored(s3, {call}, batch)
        /\ todo' = IF todo = {call} /\ call # "truncate" /\ MayTruncate
                   THEN {"truncate"} ELSE todo \ {call}
        /\ batch' = IF todo' = {} THEN Nothing ELSE batch
        /\ UNCHANGED <<mem, seq, pend, ckpt, boots, lapses, up, replayed>>
    BY DEF FlushCall
<1>2. /\ todo' \subseteq (todo \ {call}) \cup {"truncate"}
      /\ \A c \in todo : c # call => c \in todo'
      /\ "truncate" \in todo' =>
             todo' = {"truncate"} \/ ("truncate" \in todo /\ todo' \subseteq todo)
    BY <1>1
<1> QED  BY <1>1, <1>2

LEMMA FailFlushEffect ==
    ASSUME FailFlush
    PROVE  \E call \in todo :
               /\ IsNext(call) /\ s3' \in {s3, Stored(s3, {call}, batch)}
               /\ pend' = Requeued(pend, batch) /\ batch' = Nothing /\ todo' = {}
               /\ ckpt' \in {ckpt, Idle}
               /\ lapses \subseteq lapses'
               /\ UNCHANGED <<mem, seq, boots, up, replayed>>
BY DEF FailFlush

\* A flush that starts, for itself or for a checkpoint.
LEMMA TakeBatchEffect ==
    ASSUME StartFlush \/ RequestCheckpoint
    PROVE  /\ \/ /\ todo = {} /\ pend # Nothing
                 /\ batch' = pend /\ pend' = Nothing /\ todo' = CallsOf(pend)
              \/ UNCHANGED <<pend, batch, todo>>
           /\ ckpt = Idle /\ ckpt' \in {Idle, [Idle EXCEPT !.phase = "flushing"]}
           /\ UNCHANGED <<mem, seq, s3, boots, lapses, up, replayed>>
BY DEF StartFlush, RequestCheckpoint, TakeBatch

\* The remaining steps of a checkpoint.
CheckpointStep == PauseFlushes \/ ReadSegments \/ WriteLatest \/ CompactJournals \/ FailCheckpoint

LEMMA CheckpointEffect ==
    ASSUME Typed, CheckpointStep
    PROVE  /\ UNCHANGED <<mem, seq, pend, batch, todo, boots, lapses, up, replayed>>
           /\ s3'.dbTomb = s3.dbTomb /\ s3'.collTomb = s3.collTomb
<1>1. CASE PauseFlushes  BY <1>1 DEF PauseFlushes
<1>2. CASE ReadSegments  BY <1>2 DEF ReadSegments
<1>3. CASE WriteLatest
    BY <1>3, LatestFields DEF WriteLatest, Typed, Fields
<1>4. CASE CompactJournals
    BY <1>4 DEF CompactJournals, Typed, Fields, Storage
<1>5. CASE FailCheckpoint
    BY <1>5, LatestFields DEF FailCheckpoint, Typed, Fields
<1> QED  BY <1>1, <1>2, <1>3, <1>4, <1>5 DEF CheckpointStep

\* The log is written without a look at storage.
LogStep == StartAppend \/ FinishAppend \/ FailAppend

LEMMA LogEffect ==
    ASSUME LogStep
    PROVE  UNCHANGED <<mem, seq, pend, batch, todo, s3, ckpt, boots, lapses, up, replayed>>
BY DEF LogStep, StartAppend, FinishAppend, FailAppend

SchemaStep == CreateDatabase \/ RemoveDatabase \/ CreateCollection \/ RemoveCollection

LEMMA SchemaEffect ==
    ASSUME SchemaStep
    PROVE  /\ UNCHANGED <<seq, batch, todo, s3, ckpt, boots, up, replayed>>
           /\ lapses \subseteq lapses'
BY DEF SchemaStep, CreateDatabase, RemoveDatabase, CreateCollection, RemoveCollection, Schema

LEMMA Steps ==
    ASSUME [Next]_vars
    PROVE  \/ Insert \/ SchemaStep \/ StartFlush \/ RequestCheckpoint \/ FlushCall
           \/ FailFlush \/ CheckpointStep \/ LogStep \/ Crash \/ Restart
           \/ UNCHANGED vars
BY DEF Next, SchemaStep, CheckpointStep, LogStep

\* A process that is in step was so before, unless it has just started.
LEMMA StaysInStep ==
    ASSUME [Next]_vars, InStep', ~Restart, Typed
    PROVE  InStep /\ ~Crash /\ boots' = boots
<1>1. ~Crash  BY DEF Crash, InStep
<1>2. up' = up /\ replayed' = replayed /\ boots' = boots /\ lapses \subseteq lapses'
    BY <1>1, Steps, SchemaEffect, FlushCallEffect, FailFlushEffect, TakeBatchEffect,
       CheckpointEffect, LogEffect DEF Insert, vars
<1> QED  BY <1>1, <1>2 DEF InStep

LEMMA BatchStep ==
    ASSUME Typed, BatchOk, [Next]_vars
    PROVE  BatchOk'
<1>1. CASE Insert  BY <1>1 DEF Insert, BatchOk
<1>2. CASE SchemaStep  BY <1>2, SchemaEffect DEF BatchOk
<1>3. CASE StartFlush \/ RequestCheckpoint
    <2>1. ckpt'.phase \in {"idle", "flushing"} /\ ckpt.phase = "idle"
        BY <1>3, TakeBatchEffect, EmptyValues DEF Idle
    <2>2. CASE UNCHANGED <<pend, batch, todo>>  BY <2>1, <2>2 DEF BatchOk
    <2>3. CASE todo' = CallsOf(pend) /\ batch' = pend /\ pend # Nothing
        <3>1. todo' # {}  BY <2>3, CallsOfNothing DEF Typed, Fields
        <3>2. "truncate" \notin todo'  BY <2>3, CallsOfMembers DEF Typed, Fields
        <3> QED  BY <2>1, <2>3, <3>1, <3>2 DEF BatchOk
    <2> QED  BY <1>3, <2>2, <2>3, TakeBatchEffect
<1>4. CASE FlushCall
    <2>1. PICK call \in todo :
            /\ IsNext(call) /\ todo' \subseteq (todo \ {call}) \cup {"truncate"}
            /\ \A c \in todo : c # call => c \in todo'
            /\ "truncate" \in todo' =>
                   todo' = {"truncate"} \/ ("truncate" \in todo /\ todo' \subseteq todo)
            /\ batch' = IF todo' = {} THEN Nothing ELSE batch
            /\ ckpt' = ckpt
        BY <1>4, FlushCallEffect
    <2>2. todo' \subseteq CallsOf(batch) \cup {"truncate"}  BY <2>1 DEF BatchOk
    <2>3. "truncate" \in todo' => todo' = {"truncate"}  BY <2>1 DEF BatchOk
    <2>4. ASSUME NEW c \in CallsOf(batch), NEW d \in todo', Stage[d] < Stage[c]
          PROVE  c \in todo'
        <3>1. CallsOf(batch) \subseteq CallNames  BY CallsOfMembers DEF Typed, Fields
        <3>2. \A e \in CallNames : Stage[e] \in 1..8
            BY StageFacts DEF CallNames
        <3>3. d # "truncate"  BY <2>4, <3>1, <3>2, StageFacts
        <3>4. d \in todo /\ d # call  BY <2>1, <3>3
        <3>5. c \in todo  BY <2>4, <3>4 DEF BatchOk
        <3>6. Stage[call] <= Stage[d]  BY <2>1, <3>4 DEF IsNext
        <3>7. call \in CallNames /\ d \in CallNames /\ c \in CallNames
            BY <3>1, <3>4, <3>5 DEF Typed, Fields
        <3>8. c # call  BY <2>4, <3>2, <3>6, <3>7
        <3> QED  BY <2>1, <3>5, <3>8
    <2>5. ckpt'.phase \notin {"reading", "latest", "compact"}
        BY <2>1, NextCall
    <2> QED  BY <2>1, <2>2, <2>3, <2>4, <2>5 DEF BatchOk
<1>5. CASE FailFlush
    <2>1. batch' = Nothing /\ todo' = {}  BY <1>5, FailFlushEffect
    <2> QED  BY <2>1 DEF BatchOk
<1>6. CASE CheckpointStep
    <2>1. todo = {}
        BY <1>6 DEF CheckpointStep, PauseFlushes, ReadSegments, WriteLatest,
                    CompactJournals, FailCheckpoint, BatchOk
    <2>2. UNCHANGED <<batch, todo>>  BY <1>6, CheckpointEffect
    <2> QED  BY <2>1, <2>2 DEF BatchOk
<1>7. CASE LogStep  BY <1>7, LogEffect DEF BatchOk
<1>8. CASE Crash  BY <1>8 DEF Crash, BatchOk
<1>9. CASE Restart  BY <1>9 DEF Restart, BatchOk
<1>10. CASE UNCHANGED vars  BY <1>10 DEF vars, data, BatchOk
<1> QED
    BY <1>1, <1>2, <1>3, <1>4, <1>5, <1>6, <1>7, <1>8, <1>9, <1>10, Steps

LEMMA RemovedStep ==
    ASSUME Typed, BatchOk, RemovedOk, [Next]_vars
    PROVE  RemovedOk'
<1>1. CASE Insert  BY <1>1 DEF Insert, RemovedOk
<1>2. CASE SchemaStep  BY <1>2, SchemaEffect DEF RemovedOk
<1>3. CASE StartFlush \/ RequestCheckpoint
    <2>1. CASE UNCHANGED <<pend, batch, todo>>
        BY <1>3, <2>1, TakeBatchEffect DEF RemovedOk
    <2>2. CASE todo' = CallsOf(pend) /\ batch' = pend
        BY <2>2, CallsOfMembers DEF RemovedOk, Typed, Fields
    <2> QED  BY <1>3, <2>1, <2>2, TakeBatchEffect
<1>4. CASE FlushCall
    <2>1. PICK call \in todo :
            /\ IsNext(call) /\ s3' = Stored(s3, {call}, batch)
            /\ \A c \in todo : c # call => c \in todo'
            /\ batch' = IF todo' = {} THEN Nothing ELSE batch
        BY <1>4, FlushCallEffect
    <2>2. CASE batch' = Nothing  BY <2>2, EmptyValues DEF RemovedOk
    <2>3. CASE batch' = batch
        <3>1. /\ s3'.dbTomb = (call # "untombDb" /\ (call = "tombDb" \/ s3.dbTomb))
              /\ s3'.collTomb = (call # "untombColl"
                     /\ (call = "tombColl" \/ (s3.collTomb /\ call # "deleteDb")))
            BY <2>1, OneCallStored
        <3>2. batch.dbDrop /\ "tombDb" \notin todo' /\ ~batch.db => s3'.dbTomb
            BY <2>1, <3>1, NextCall DEF RemovedOk
        <3>3. batch.collDrop /\ "tombColl" \notin todo' /\ ~batch.meta => s3'.collTomb
            BY <2>1, <3>1, NextCall DEF RemovedOk
        <3> QED  BY <2>3, <3>2, <3>3 DEF RemovedOk
    <2> QED  BY <2>1, <2>2, <2>3
<1>5. CASE FailFlush
    <2>1. batch' = Nothing  BY <1>5, FailFlushEffect
    <2> QED  BY <2>1, EmptyValues DEF RemovedOk
<1>6. CASE CheckpointStep  BY <1>6, CheckpointEffect DEF RemovedOk
<1>7. CASE LogStep  BY <1>7, LogEffect DEF RemovedOk
<1>8. CASE Crash
    <2>1. batch' = Nothing  BY <1>8 DEF Crash
    <2> QED  BY <2>1, EmptyValues DEF RemovedOk
<1>9. CASE Restart  BY <1>9 DEF Restart, RemovedOk
<1>10. CASE UNCHANGED vars  BY <1>10 DEF vars, data, RemovedOk
<1> QED
    BY <1>1, <1>2, <1>3, <1>4, <1>5, <1>6, <1>7, <1>8, <1>9, <1>10, Steps

\* What schema changes do to memory, and to the queue.
LEMMA SchemaMemory ==
    ASSUME Typed, SchemaStep
    PROVE  /\ mem'.ops = mem.ops \/ mem'.ops = {}
           /\ RemoveDatabase \/ RemoveCollection => mem'.ops = {}
           /\ CreateDatabase => ~mem'.dbGone /\ mem'.collGone = mem.collGone
           /\ RemoveDatabase => mem'.dbGone /\ mem'.collGone = mem.collGone
           /\ CreateCollection => mem'.dbGone = mem.dbGone /\ ~mem'.collGone
           /\ RemoveCollection => mem'.dbGone = mem.dbGone /\ mem'.collGone
<1>1. mem \in Memory  BY DEF Typed, Fields
<1>2. CreateDatabase => /\ ~mem'.dbGone /\ mem'.collGone = mem.collGone
                        /\ mem'.ops = mem.ops
    BY <1>1 DEF CreateDatabase, Memory
<1>3. RemoveDatabase => /\ mem'.dbGone /\ mem'.collGone = mem.collGone
                        /\ mem'.ops = {}
    BY <1>1 DEF RemoveDatabase, Memory
<1>4. CreateCollection => /\ ~mem'.collGone /\ mem'.dbGone = mem.dbGone
                          /\ mem'.ops = mem.ops
    BY <1>1 DEF CreateCollection, Memory
<1>5. RemoveCollection => /\ mem'.collGone /\ mem'.dbGone = mem.dbGone
                          /\ mem'.ops = {}
    BY <1>1 DEF RemoveCollection, Memory
<1> QED  BY <1>2, <1>3, <1>4, <1>5 DEF SchemaStep

LEMMA SchemaQueue ==
    ASSUME Typed, SchemaStep
    PROVE  /\ pend' \in Queue
           /\ CreateDatabase =>
                  /\ pend'.ops = pend.ops /\ pend'.db /\ ~pend'.dbDrop
                  /\ pend'.meta = pend.meta /\ pend'.collDrop = pend.collDrop
           /\ RemoveDatabase => ~pend'.collDrop
           /\ RemoveDatabase /\ pend.meta /\ CollectionDropTaken => "discarded" \in lapses'
           /\ CreateCollection =>
                  /\ pend'.ops = pend.ops
                  /\ pend'.db = pend.db /\ pend'.dbDrop = pend.dbDrop
                  /\ pend'.collDrop = pend.collDrop
                  /\ IF mem.dbGone THEN pend' = pend ELSE pend'.meta
           /\ CreateCollection /\ mem.dbGone /\ mem.collGone => "unrecorded" \in lapses'
           /\ RemoveCollection => pend'.db = pend.db /\ pend'.dbDrop = pend.dbDrop
<1>1. pend \in Queue  BY DEF Typed, Fields
<1>2. CreateDatabase => pend' = QueueDatabase(pend)  BY DEF CreateDatabase
<1>3. RemoveDatabase => pend' = QueueDatabaseDrop(pend)  BY DEF RemoveDatabase
<1>4. RemoveDatabase /\ pend.meta /\ CollectionDropTaken => "discarded" \in lapses'
    BY DEF RemoveDatabase, If
<1>5. CreateCollection => pend' = IF mem.dbGone THEN pend ELSE QueueMeta(pend)
    BY DEF CreateCollection
<1>6. CreateCollection /\ mem.dbGone /\ mem.collGone => "unrecorded" \in lapses'
    BY DEF CreateCollection, If
<1>7. RemoveCollection => pend' = QueueCollectionDrop(pend)  BY DEF RemoveCollection
<1>8. /\ CreateDatabase => /\ pend' \in Queue /\ pend'.ops = pend.ops
                           /\ pend'.db /\ ~pend'.dbDrop
                           /\ pend'.meta = pend.meta /\ pend'.collDrop = pend.collDrop
      /\ RemoveDatabase => pend' \in Queue /\ ~pend'.collDrop
      /\ CreateCollection => /\ pend' \in Queue /\ pend'.ops = pend.ops
                             /\ pend'.db = pend.db /\ pend'.dbDrop = pend.dbDrop
                             /\ pend'.collDrop = pend.collDrop
                             /\ IF mem.dbGone THEN pend' = pend ELSE pend'.meta
      /\ RemoveCollection => /\ pend' \in Queue
                             /\ pend'.db = pend.db /\ pend'.dbDrop = pend.dbDrop
    BY <1>1, <1>2, <1>3, <1>5, <1>7, QueueDatabaseFields, QueueDatabaseDropFields,
       QueueMetaFields, QueueCollectionDropFields
<1> QED  BY <1>4, <1>6, <1>8 DEF SchemaStep

\* Without a tombstone in storage, a restart numbers on from the snapshot.
LEMMA NumbersGoOn ==
    ASSUME Fields, LogsOk, ~(s3.dbTomb \/ s3.collTomb)
    PROVE  s3.cursor <= Recovered.seq
<1> DEFINE stored == {0, s3.cursor} \cup {o.seq : o \in s3.journal}
           numbers == {Restored(s3).seq} \cup {r.op.seq : r \in Range(wal)}
<1>1. /\ s3 \in Storage /\ s3.cursor \in 0..MaxOps /\ s3.journal \subseteq Op
    BY DEF Fields, Storage
<1>2. Restored(s3).seq = Max(stored) /\ Recovered.seq = Max(numbers)
    BY DEF Restored, Recovered
<1>3. stored \subseteq Nat /\ s3.cursor \in stored /\ \A n \in stored : n <= MaxOps
    <2>1. \A o \in s3.journal : o.seq \in 0..MaxOps  BY <1>1, OpFields, Bounds
    <2> QED  BY <1>1, <2>1, Bounds
<1>4. numbers \subseteq Nat /\ Restored(s3).seq \in numbers /\ \A n \in numbers : n <= MaxOps
    <2>1. \A r \in Range(wal) : r.op \in Op \cup {NoOp}
        BY ElementsInSet DEF LogsOk, Loggable, Record
    <2>2. \A r \in Range(wal) : r.op.seq \in 0..MaxOps
        BY <2>1, OpFields, Bounds DEF NoOp
    <2>3. Restored(s3).seq \in 0..MaxOps  BY <1>1, RestoredFacts
    <2> QED  BY <2>2, <2>3, Bounds
<1> HIDE DEF stored, numbers
<1>5. s3.cursor <= Max(stored)
    BY <1>3, Bounds, MaxOfNats
<1>6. Restored(s3).seq <= Max(numbers)
    BY <1>4, Bounds, MaxOfNats
<1>7. Max(stored) \in Nat /\ Max(numbers) \in Nat
    BY <1>3, <1>4, Bounds, MaxOfNats
<1> QED  BY <1>1, <1>2, <1>5, <1>6, <1>7, Bounds

\* A restart that leaves the process in step has replayed operations only.
LEMMA RestartInStep ==
    ASSUME Typed, Restart, InStep'
    PROVE  /\ mem'.dbGone = s3.dbTomb /\ mem'.collGone = s3.collTomb
           /\ mem'.dbGone \/ mem'.collGone => mem'.ops = {}
           /\ s3.cursor <= seq'
           /\ \A o \in mem'.ops : o.run <= boots
           /\ boots' = boots + 1
           /\ pend' = Nothing /\ todo' = {} /\ ckpt' = Idle /\ s3' = s3
<1>1. /\ ~up /\ boots' = boots + 1
      /\ mem' = [dbGone |-> Recovered.dbGone, collGone |-> Recovered.collGone,
                 ops |-> Recovered.ops]
      /\ seq' = Recovered.seq
      /\ replayed' = replayed \cup {r.type : r \in Range(wal)}
      /\ (s3.dbTomb \/ s3.collTomb) /\ Recovered.seq < s3.cursor
            => "renumbered" \in lapses'
      /\ UNCHANGED <<pend, todo, ckpt, s3>>
    BY DEF Restart, If
<1>2. \A r \in Range(wal) : r.type = "ops"  BY <1>1 DEF InStep
<1>3. /\ Recovered.dbGone = s3.dbTomb /\ Recovered.collGone = s3.collTomb
      /\ Recovered.dbGone \/ Recovered.collGone => Recovered.ops = {}
      /\ \A o \in Recovered.ops : o.run <= boots
      /\ Recovered.seq \in 0..MaxOps
    BY <1>2, RecoveredFacts DEF Typed
<1>4. s3.cursor <= seq'
    <2>1. CASE s3.dbTomb \/ s3.collTomb
        <3>1. ~(Recovered.seq < s3.cursor)  BY <1>1, <2>1 DEF InStep, LeftBehind
        <3>2. s3.cursor \in 0..MaxOps  BY DEF Typed, Fields, Storage
        <3> QED  BY <1>1, <1>3, <3>1, <3>2, Bounds
    <2>2. CASE ~(s3.dbTomb \/ s3.collTomb)
        BY <1>1, <2>2, NumbersGoOn DEF Typed
    <2> QED  BY <2>1, <2>2
<1>5. pend = Nothing /\ todo = {} /\ ckpt = Idle  BY <1>1 DEF Typed, DownOk
<1> QED  BY <1>1, <1>3, <1>4, <1>5

LEMMA TombsStep ==
    ASSUME Typed, BatchOk, RemovedOk, TombsOk, [Next]_vars
    PROVE  TombsOk'
<1> SUFFICES ASSUME InStep'
             PROVE  /\ (mem.dbGone \/ mem.collGone => mem.ops = {})'
                    /\ (~mem.dbGone => \/ pend.db
                                       \/ /\ ~pend.dbDrop
                                          /\ \/ "untombDb" \in todo
                                             \/ "tombDb" \notin todo /\ ~s3.dbTomb)'
                    /\ (~mem.collGone => \/ pend.meta
                                         \/ /\ ~pend.collDrop
                                            /\ \/ "untombColl" \in todo
                                               \/ "tombColl" \notin todo /\ ~s3.collTomb)'
    BY DEF TombsOk
<1>1. CASE Restart
    <2>1. /\ mem'.dbGone = s3'.dbTomb /\ mem'.collGone = s3'.collTomb
          /\ mem'.dbGone \/ mem'.collGone => mem'.ops = {}
          /\ pend' = Nothing /\ todo' = {}
        BY <1>1, RestartInStep
    <2> QED  BY <2>1, EmptyValues
<1> SUFFICES ASSUME ~Restart
             PROVE  /\ (mem.dbGone \/ mem.collGone => mem.ops = {})'
                    /\ (~mem.dbGone => \/ pend.db
                                       \/ /\ ~pend.dbDrop
                                          /\ \/ "untombDb" \in todo
                                             \/ "tombDb" \notin todo /\ ~s3.dbTomb)'
                    /\ (~mem.collGone => \/ pend.meta
                                         \/ /\ ~pend.collDrop
                                            /\ \/ "untombColl" \in todo
                                               \/ "tombColl" \notin todo /\ ~s3.collTomb)'
    BY <1>1
<1>2. InStep /\ ~Crash  BY StaysInStep
<1>3. /\ mem.dbGone \/ mem.collGone => mem.ops = {}
      /\ ~mem.dbGone => \/ pend.db
                        \/ /\ ~pend.dbDrop
                           /\ \/ "untombDb" \in todo
                              \/ "tombDb" \notin todo /\ ~s3.dbTomb
      /\ ~mem.collGone => \/ pend.meta
                          \/ /\ ~pend.collDrop
                             /\ \/ "untombColl" \in todo
                                \/ "tombColl" \notin todo /\ ~s3.collTomb
    BY <1>2 DEF TombsOk
<1>4. CASE Insert
    <2>1. /\ ~mem.dbGone /\ ~mem.collGone
          /\ mem' = [mem EXCEPT !.ops = @ \cup {[run |-> boots, seq |-> seq + 1]}]
          /\ pend' = QueueOp(pend, [run |-> boots, seq |-> seq + 1])
          /\ UNCHANGED <<todo, s3>> /\ seq < MaxOps
        BY <1>4 DEF Insert
    <2>2. mem'.dbGone = mem.dbGone /\ mem'.collGone = mem.collGone
        BY <2>1 DEF Typed, Fields, Memory
    <2>3. [run |-> boots, seq |-> seq + 1] \in Op
        BY <2>1, Bounds DEF Typed, Fields, Op
    <2>4. /\ pend'.db = pend.db /\ pend'.dbDrop = pend.dbDrop
          /\ pend'.meta = pend.meta /\ pend'.collDrop = pend.collDrop
        BY <2>1, <2>3, QueueOpFields DEF Typed, Fields
    <2> QED  BY <1>3, <2>1, <2>2, <2>4
<1>5. CASE CreateDatabase
    <2>1. SchemaStep  BY <1>5 DEF SchemaStep
    <2>2. UNCHANGED <<todo, s3>>  BY <2>1, SchemaEffect
    <2>3. mem'.ops = mem.ops \/ mem'.ops = {}  BY <2>1, SchemaMemory
    <2>4. ~mem'.dbGone /\ mem'.collGone = mem.collGone  BY <1>5, <2>1, SchemaMemory
    <2>5. /\ pend'.db /\ ~pend'.dbDrop
          /\ pend'.meta = pend.meta /\ pend'.collDrop = pend.collDrop
        BY <1>5, <2>1, SchemaQueue
    <2> QED  BY <1>3, <2>2, <2>3, <2>4, <2>5
<1>6. CASE RemoveDatabase
    <2>1. SchemaStep  BY <1>6 DEF SchemaStep
    <2>2. UNCHANGED <<todo, s3>>  BY <2>1, SchemaEffect
    <2>3. mem'.ops = {} /\ mem'.dbGone /\ mem'.collGone = mem.collGone
        BY <1>6, <2>1, SchemaMemory
    <2>4. ~pend'.collDrop /\ (pend.meta /\ CollectionDropTaken => "discarded" \in lapses')
        BY <1>6, <2>1, SchemaQueue
    <2>5. pend.meta => ~s3.collTomb /\ "tombColl" \notin todo
        <3>1. pend.meta => ~CollectionDropTaken  BY <2>4 DEF InStep, LeftBehind
        <3>2. ~batch.collDrop => "tombColl" \notin todo
            BY CallsOfMembers DEF Typed, Fields, BatchOk
        <3> QED  BY <3>1, <3>2 DEF CollectionDropTaken
    <2> QED  BY <1>3, <2>2, <2>3, <2>4, <2>5
<1>7. CASE CreateCollection
    <2>1. SchemaStep  BY <1>7 DEF SchemaStep
    <2>2. UNCHANGED <<todo, s3>>  BY <2>1, SchemaEffect
    <2>3. /\ mem'.ops = mem.ops \/ mem'.ops = {}
          /\ mem'.dbGone = mem.dbGone /\ ~mem'.collGone
        BY <1>7, <2>1, SchemaMemory
    <2>4. /\ pend'.db = pend.db /\ pend'.dbDrop = pend.dbDrop
          /\ IF mem.dbGone THEN pend' = pend ELSE pend'.meta
          /\ mem.dbGone /\ mem.collGone => "unrecorded" \in lapses'
        BY <1>7, <2>1, SchemaQueue
    <2>5. mem.dbGone => ~mem.collGone  BY <2>4 DEF InStep, LeftBehind
    <2> QED  BY <1>3, <2>2, <2>3, <2>4, <2>5
<1>8. CASE RemoveCollection
    <2>1. SchemaStep  BY <1>8 DEF SchemaStep
    <2>2. UNCHANGED <<todo, s3>>  BY <2>1, SchemaEffect
    <2>3. mem'.ops = {} /\ mem'.dbGone = mem.dbGone /\ mem'.collGone
        BY <1>8, <2>1, SchemaMemory
    <2>4. pend'.db = pend.db /\ pend'.dbDrop = pend.dbDrop  BY <1>8, <2>1, SchemaQueue
    <2> QED  BY <1>3, <2>2, <2>3, <2>4
<1>9. CASE StartFlush \/ RequestCheckpoint
    <2>1. UNCHANGED <<mem, s3>>  BY <1>9, TakeBatchEffect
    <2>2. CASE UNCHANGED <<pend, todo>>  BY <1>3, <2>1, <2>2
    <2>3. CASE todo = {} /\ pend' = Nothing /\ todo' = CallsOf(pend)
        <3>1. /\ "untombDb" \in todo' <=> pend.db
              /\ "tombDb" \in todo' <=> pend.dbDrop
              /\ "untombColl" \in todo' <=> pend.meta
              /\ "tombColl" \in todo' <=> pend.collDrop
            BY <2>3, CallsOfMembers DEF Typed, Fields
        <3>2. ~pend'.db /\ ~pend'.dbDrop /\ ~pend'.meta /\ ~pend'.collDrop
            BY <2>3, EmptyValues
        <3> QED  BY <1>3, <2>1, <2>3, <3>1, <3>2
    <2> QED  BY <1>9, <2>2, <2>3, TakeBatchEffect
<1>10. CASE FlushCall
    <2>1. PICK call \in todo :
            /\ IsNext(call) /\ s3' = Stored(s3, {call}, batch)
            /\ todo' \subseteq (todo \ {call}) \cup {"truncate"}
            /\ \A c \in todo : c # call => c \in todo'
            /\ UNCHANGED <<mem, pend>>
        BY <1>10, FlushCallEffect
    <2>2. /\ s3'.dbTomb = (call # "untombDb" /\ (call = "tombDb" \/ s3.dbTomb))
          /\ s3'.collTomb = (call # "untombColl"
                 /\ (call = "tombColl" \/ (s3.collTomb /\ call # "deleteDb")))
        BY <2>1, OneCallStored
    <2>3. /\ call = "untombDb" => "tombDb" \notin todo
          /\ call = "untombColl" => "tombColl" \notin todo
        BY <2>1, NextCall
    <2>4. "untombDb" \in todo \/ ("tombDb" \notin todo /\ ~s3.dbTomb) =>
              "untombDb" \in todo' \/ ("tombDb" \notin todo' /\ ~s3'.dbTomb)
        BY <2>1, <2>2, <2>3
    <2>5. "untombColl" \in todo \/ ("tombColl" \notin todo /\ ~s3.collTomb) =>
              "untombColl" \in todo' \/ ("tombColl" \notin todo' /\ ~s3'.collTomb)
        BY <2>1, <2>2, <2>3
    <2> QED  BY <1>3, <2>1, <2>4, <2>5
<1>11. CASE FailFlush
    <2>1. PICK call \in todo :
            /\ IsNext(call) /\ s3' \in {s3, Stored(s3, {call}, batch)}
            /\ pend' = Requeued(pend, batch) /\ todo' = {} /\ UNCHANGED mem
        BY <1>11, FailFlushEffect
    <2>2. /\ s3'.dbTomb => call = "tombDb" \/ s3.dbTomb
          /\ s3'.collTomb => call = "tombColl" \/ s3.collTomb
        BY <2>1, OneCallStored
    <2>3. /\ "untombDb" \in todo => batch.db
          /\ "untombColl" \in todo => batch.meta
        BY <2>1, NextCall
    <2>4. /\ pend'.db = (pend.db \/ batch.db) /\ pend'.dbDrop = (pend.dbDrop \/ batch.dbDrop)
          /\ pend'.meta = (pend.meta \/ batch.meta)
          /\ pend'.collDrop = (pend.collDrop \/ batch.collDrop)
        BY <2>1, RequeuedFields DEF Typed, Fields
    <2>5. /\ batch.dbDrop /\ "tombDb" \notin todo /\ ~batch.db => s3.dbTomb
          /\ batch.collDrop /\ "tombColl" \notin todo /\ ~batch.meta => s3.collTomb
        BY DEF RemovedOk
    <2>6. ~mem'.dbGone => pend'.db \/ (~pend'.dbDrop /\ ~s3'.dbTomb)
        BY <1>3, <2>1, <2>2, <2>3, <2>4, <2>5
    <2>7. ~mem'.collGone => pend'.meta \/ (~pend'.collDrop /\ ~s3'.collTomb)
        BY <1>3, <2>1, <2>2, <2>3, <2>4, <2>5
    <2> QED  BY <1>3, <2>1, <2>6, <2>7
<1>12. CASE CheckpointStep  BY <1>3, <1>12, CheckpointEffect
<1>13. CASE LogStep  BY <1>3, <1>13, LogEffect
<1>14. CASE UNCHANGED vars  BY <1>3, <1>14 DEF vars, data
<1> QED
    BY <1>2, <1>4, <1>5, <1>6, <1>7, <1>8, <1>9, <1>10, <1>11, <1>12, <1>13, <1>14, Steps
       DEF SchemaStep

LEMMA CursorsStep ==
    ASSUME Typed, BatchOk, CursorsOk, [Next]_vars
    PROVE  CursorsOk'
<1> SUFFICES ASSUME InStep'
             PROVE  /\ (s3.cursor <= seq)' /\ (ckpt.cursor <= seq)'
                    /\ (ckpt.phase \in {"reading", "latest"} => s3.cursor <= ckpt.cursor)'
                    /\ (ckpt.phase = "compact" => ckpt.cursor <= s3.cursor)'
    BY DEF CursorsOk
<1>1. /\ Idle.phase = "idle" /\ Idle.cursor = 0
      /\ LET c == [Idle EXCEPT !.phase = "flushing"] IN
         c.phase = "flushing" /\ c.cursor = 0
    BY DEF Idle
<1>2. seq \in Nat /\ s3.cursor \in Nat /\ ckpt.cursor \in Nat
    BY Bounds DEF Typed, Fields, Storage, Checkpoint
<1>3. CASE Restart
    <2>1. s3'.cursor <= seq' /\ ckpt' = Idle /\ s3' = s3  BY <1>3, RestartInStep
    <2>2. seq' \in Nat
        <3>1. Typed'  BY StepTyped
        <3> QED  BY <3>1, Bounds DEF Typed, Fields
    <2> QED  BY <1>1, <2>1, <2>2
<1>4. CASE ~Restart
    <2>1. InStep /\ ~Crash  BY <1>4, StaysInStep
    <2>2. /\ s3.cursor <= seq /\ ckpt.cursor <= seq
          /\ ckpt.phase \in {"reading", "latest"} => s3.cursor <= ckpt.cursor
          /\ ckpt.phase = "compact" => ckpt.cursor <= s3.cursor
        BY <2>1 DEF CursorsOk
    <2>3. CASE Insert
        <3>1. seq' = seq + 1 /\ UNCHANGED <<s3, ckpt>>  BY <2>3 DEF Insert
        <3> QED  BY <1>2, <2>2, <3>1
    <2>4. CASE SchemaStep  BY <2>2, <2>4, SchemaEffect
    <2>5. CASE StartFlush \/ RequestCheckpoint
        <3>1. /\ UNCHANGED <<seq, s3>>
              /\ ckpt' \in {Idle, [Idle EXCEPT !.phase = "flushing"]}
            BY <2>5, TakeBatchEffect
        <3>2. ckpt'.cursor = 0 /\ ckpt'.phase \in {"idle", "flushing"}  BY <1>1, <3>1
        <3> QED  BY <1>2, <2>2, <3>1, <3>2
    <2>6. CASE FlushCall
        <3>1. PICK call \in todo : /\ IsNext(call) /\ s3' = Stored(s3, {call}, batch)
                                   /\ UNCHANGED <<seq, ckpt>>
            BY <2>6, FlushCallEffect
        <3>2. s3'.cursor \in {0, s3.cursor}  BY <3>1, OneCallStored
        <3>3. ckpt.phase \notin {"reading", "latest", "compact"}  BY <3>1, NextCall
        <3> QED  BY <1>2, <2>2, <3>1, <3>2, <3>3
    <2>7. CASE FailFlush
        <3>1. PICK call \in todo : /\ IsNext(call)
                                   /\ s3' \in {s3, Stored(s3, {call}, batch)}
                                   /\ seq' = seq /\ ckpt' \in {ckpt, Idle}
            BY <2>7, FailFlushEffect
        <3>2. s3'.cursor \in {0, s3.cursor}  BY <3>1, OneCallStored
        <3>3. /\ ckpt'.phase \notin {"reading", "latest", "compact"}
              /\ ckpt'.cursor \in {0, ckpt.cursor}
            BY <1>1, <3>1, NextCall
        <3> QED  BY <1>2, <2>2, <3>1, <3>2, <3>3
    <2>8. CASE PauseFlushes
        <3>1. /\ UNCHANGED <<seq, s3>>
              /\ ckpt' \in {Idle, [phase |-> "reading", ops |-> {}, cursor |-> seq]}
            BY <2>8 DEF PauseFlushes
        <3>2. \/ ckpt'.phase = "idle" /\ ckpt'.cursor = 0
              \/ ckpt'.phase = "reading" /\ ckpt'.cursor = seq
            BY <1>1, <3>1
        <3> QED  BY <1>2, <2>2, <3>1, <3>2
    <2>9. CASE ReadSegments
        <3>1. /\ UNCHANGED <<seq, s3>> /\ ckpt.phase = "reading"
              /\ ckpt' = [ckpt EXCEPT !.phase = "latest", !.ops = mem.ops]
            BY <2>9 DEF ReadSegments
        <3>2. ckpt'.phase = "latest" /\ ckpt'.cursor = ckpt.cursor
            BY <3>1 DEF Typed, Fields, Checkpoint
        <3> QED  BY <2>2, <3>1, <3>2
    <2>10. CASE WriteLatest
        <3>1. /\ seq' = seq /\ s3' = Latest(s3, ckpt)
              /\ ckpt' = [ckpt EXCEPT !.phase = "compact"]
            BY <2>10 DEF WriteLatest
        <3>2. ckpt'.phase = "compact" /\ ckpt'.cursor = ckpt.cursor
            BY <3>1 DEF Typed, Fields, Checkpoint
        <3>3. s3'.cursor = ckpt.cursor  BY <3>1, LatestFields DEF Typed, Fields
        <3> QED  BY <1>2, <2>2, <3>1, <3>2, <3>3
    <2>11. CASE CompactJournals
        <3>1. /\ seq' = seq /\ ckpt' = Idle
              /\ s3' = [s3 EXCEPT !.journal = {o \in @ : o.seq > ckpt.cursor}]
            BY <2>11 DEF CompactJournals, Resumed
        <3>2. s3'.cursor = s3.cursor  BY <3>1 DEF Typed, Fields, Storage
        <3> QED  BY <1>1, <1>2, <2>2, <3>1, <3>2
    <2>12. CASE FailCheckpoint
        <3>1. seq' = seq /\ ckpt' = Idle /\ s3' \in {s3, Latest(s3, ckpt)}
            BY <2>12 DEF FailCheckpoint, Resumed
        <3>2. s3'.cursor \in {s3.cursor, ckpt.cursor}
            BY <3>1, LatestFields DEF Typed, Fields
        <3> QED  BY <1>1, <1>2, <2>2, <3>1, <3>2
    <2>13. CASE LogStep  BY <2>2, <2>13, LogEffect
    <2>14. CASE UNCHANGED vars  BY <2>2, <2>14 DEF vars, data
    <2> QED
        BY <1>4, <2>1, <2>3, <2>4, <2>5, <2>6, <2>7, <2>8, <2>9, <2>10, <2>11, <2>12,
           <2>13, <2>14, Steps
           DEF CheckpointStep
<1> QED  BY <1>3, <1>4

\* Operations that memory loses need not be anywhere.
LEMMA NoneKnown ==
    ASSUME mem'.ops = {} PROVE PlacesOk'
BY DEF PlacesOk, Known

LEMMA InsertPlaces ==
    ASSUME Typed, CursorsOk, PlacesOk, InStep, Insert
    PROVE  PlacesOk'
<1> PICK new : new = [run |-> boots, seq |-> seq + 1]  OBVIOUS
<1>1. /\ mem' = [mem EXCEPT !.ops = @ \cup {new}] /\ pend' = QueueOp(pend, new)
      /\ seq < MaxOps /\ UNCHANGED <<batch, todo, s3, ckpt, boots>>
    BY DEF Insert
<1>2. new \in Op /\ new.seq = seq + 1
    BY <1>1, Bounds DEF Typed, Fields, Op
<1>3. mem'.ops = mem.ops \cup {new}  BY <1>1 DEF Typed, Fields, Memory
<1>4. /\ pend'.ops = pend.ops \cup {new}
      /\ pend'.dbDrop = pend.dbDrop /\ pend'.collDrop = pend.collDrop
    BY <1>1, <1>2, QueueOpFields DEF Typed, Fields
<1>5. s3.cursor <= seq /\ ckpt.cursor <= seq  BY DEF CursorsOk
<1>6. ~(new.seq <= s3.cursor) /\ ~(new.seq <= ckpt.cursor)
    BY <1>2, <1>5, Bounds DEF Typed, Fields, Storage, Checkpoint
<1>7. Placed(new)'  BY <1>1, <1>4, <1>6 DEF Placed
<1>8. \A o \in Known : Placed(o)'  BY <1>1, <1>4 DEF PlacesOk, Placed
<1>9. \A o \in Known' : o \in Known \/ o = new  BY <1>1, <1>3 DEF Known
<1> QED  BY <1>7, <1>8, <1>9 DEF PlacesOk

LEMMA SchemaPlaces ==
    ASSUME Typed, PlacesOk, InStep, SchemaStep
    PROVE  PlacesOk'
<1>1. CASE mem'.ops = {}  BY <1>1, NoneKnown
<1>2. CASE CreateDatabase \/ CreateCollection
    <2>1. pend'.ops = pend.ops
        BY <1>2, SchemaQueue
    <2>2. pend'.dbDrop => pend.dbDrop  BY <1>2, SchemaQueue
    <2>3. pend'.collDrop = pend.collDrop  BY <1>2, SchemaQueue
    <2>4. UNCHANGED <<batch, todo, s3, ckpt, boots>>  BY SchemaEffect
    <2>5. mem'.ops \subseteq mem.ops  BY SchemaMemory
    <2>6. Known' \subseteq Known  BY <2>4, <2>5 DEF Known
    <2> QED  BY <2>1, <2>2, <2>3, <2>4, <2>6 DEF PlacesOk, Placed
<1> QED  BY <1>1, <1>2, SchemaMemory DEF SchemaStep

LEMMA TakeBatchPlaces ==
    ASSUME Typed, PlacesOk, InStep, StartFlush \/ RequestCheckpoint
    PROVE  PlacesOk'
<1>1. UNCHANGED <<mem, s3, boots>> /\ ckpt'.phase # "latest" /\ ckpt.phase # "latest"
    BY TakeBatchEffect, EmptyValues DEF Idle
<1>2. CASE UNCHANGED <<pend, batch, todo>>
    BY <1>1, <1>2 DEF PlacesOk, Known, Placed
<1>3. CASE todo = {} /\ batch' = pend /\ pend' = Nothing /\ todo' = CallsOf(pend)
    <2>1. pend.ops # {} => "journal" \in todo'
        BY <1>3, CallsOfMembers DEF Typed, Fields
    <2>2. ~pend'.dbDrop /\ ~pend'.collDrop  BY <1>3, EmptyValues
    <2>3. ASSUME NEW o \in Known PROVE Placed(o)'
        <3>1. Placed(o)  BY <2>3 DEF PlacesOk
        <3> QED  BY <1>1, <1>3, <2>1, <2>2, <3>1 DEF Placed
    <2> QED  BY <1>1, <2>3 DEF PlacesOk, Known
<1> QED  BY <1>2, <1>3, TakeBatchEffect

LEMMA FlushCallPlaces ==
    ASSUME Typed, BatchOk, PlacesOk, InStep, FlushCall
    PROVE  PlacesOk'
<1>1. PICK call \in todo :
        /\ IsNext(call) /\ s3' = Stored(s3, {call}, batch)
        /\ \A c \in todo : c # call => c \in todo'
        /\ batch' = IF todo' = {} THEN Nothing ELSE batch
        /\ UNCHANGED <<mem, pend, ckpt, boots>>
    BY FlushCallEffect
<1>2. /\ call \in {"deleteDb", "deleteColl"} => s3'.cursor = 0
      /\ call \notin {"deleteDb", "deleteColl"} =>
             /\ s3'.snap = s3.snap /\ s3'.cursor = s3.cursor
             /\ s3.journal \subseteq s3'.journal
      /\ call = "journal" => batch.ops \subseteq s3'.journal
    BY <1>1, OneCallStored
<1>3. /\ call \in {"deleteDb", "deleteColl"} => batch.dbDrop \/ batch.collDrop
      /\ call \in {"deleteDb", "deleteColl"} /\ batch.ops # {} => "journal" \in todo
    BY <1>1, NextCall
<1>4. Known \subseteq Op /\ s3.cursor \in Nat
    BY Bounds DEF Known, Typed, Fields, Memory, Storage
<1>5. batch'.dbDrop \/ batch'.collDrop => batch' = batch
    BY <1>1, EmptyValues
<1>6. ASSUME NEW o \in Known PROVE Placed(o)'
    <2>1. Placed(o)  BY DEF PlacesOk
    <2>2. o.seq \in Nat /\ o.seq # 0  BY <1>4, OpFields, Bounds
    <2>3. "journal" \in todo /\ o \in batch.ops =>
              \/ "journal" \in todo' /\ o \in batch'.ops
              \/ o \in s3'.journal
        BY <1>1, <1>2
    <2>4. \/ o \in pend'.ops
          \/ "journal" \in todo' /\ o \in batch'.ops
          \/ o \in s3'.journal
          \/ o.seq <= s3'.cursor
        <3>1. CASE call \in {"deleteDb", "deleteColl"}
            <4>1. o \in pend.ops \cup batch.ops  BY <1>3, <2>1, <3>1 DEF Placed
            <4>2. o \in batch.ops => "journal" \in todo  BY <1>3, <3>1
            <4> QED  BY <1>1, <2>3, <4>1, <4>2
        <3>2. CASE call \notin {"deleteDb", "deleteColl"}
            BY <1>1, <1>2, <2>1, <2>3, <3>2 DEF Placed
        <3> QED  BY <3>1, <3>2
    <2>5. o.seq <= s3'.cursor => o \in s3'.snap
        BY <1>2, <2>1, <2>2 DEF Placed
    <2>6. ckpt'.phase = "latest" /\ o.seq <= ckpt'.cursor => o \in ckpt'.ops
        BY <1>1, <2>1 DEF Placed
    <2>7. pend'.dbDrop \/ pend'.collDrop => o \in pend'.ops  BY <1>1, <2>1 DEF Placed
    <2>8. batch'.dbDrop \/ batch'.collDrop => o \in pend'.ops \cup batch'.ops
        BY <1>1, <1>5, <2>1 DEF Placed
    <2> QED  BY <2>4, <2>5, <2>6, <2>7, <2>8 DEF Placed
<1> QED  BY <1>1, <1>6 DEF PlacesOk, Known

LEMMA FailFlushPlaces ==
    ASSUME Typed, BatchOk, PlacesOk, InStep, FailFlush
    PROVE  PlacesOk'
<1>1. PICK call \in todo :
        /\ IsNext(call) /\ s3' \in {s3, Stored(s3, {call}, batch)}
        /\ pend' = Requeued(pend, batch) /\ batch' = Nothing /\ todo' = {}
        /\ ckpt' \in {ckpt, Idle}
        /\ UNCHANGED <<mem, boots>>
    BY FailFlushEffect
<1>2. /\ call \in {"deleteDb", "deleteColl"} =>
             s3'.cursor = 0 \/ s3' = s3
      /\ call \notin {"deleteDb", "deleteColl"} =>
             /\ s3'.snap = s3.snap /\ s3'.cursor = s3.cursor
             /\ s3.journal \subseteq s3'.journal
    BY <1>1, OneCallStored
<1>3. call \in {"deleteDb", "deleteColl"} => batch.dbDrop \/ batch.collDrop
    BY <1>1, NextCall
<1>4. Known \subseteq Op  BY DEF Known, Typed, Fields, Memory
<1>5. /\ pend'.ops = batch.ops \cup pend.ops
      /\ pend'.dbDrop = (pend.dbDrop \/ batch.dbDrop)
      /\ pend'.collDrop = (pend.collDrop \/ batch.collDrop)
    BY <1>1, RequeuedFields DEF Typed, Fields
<1>6. ~batch'.dbDrop /\ ~batch'.collDrop  BY <1>1, EmptyValues
<1>7. ckpt'.phase = "latest" => ckpt' = ckpt  BY <1>1, EmptyValues
<1>8. ASSUME NEW o \in Known PROVE Placed(o)'
    <2>1. Placed(o)  BY DEF PlacesOk
    <2>2. o.seq \in Nat /\ o.seq # 0  BY <1>4, OpFields, Bounds
    <2>3. \/ o \in pend'.ops
          \/ o \in s3'.journal
          \/ o.seq <= s3'.cursor
        BY <1>2, <1>3, <1>5, <2>1 DEF Placed
    <2>4. o.seq <= s3'.cursor => o \in s3'.snap
        BY <1>2, <2>1, <2>2 DEF Placed
    <2>5. ckpt'.phase = "latest" /\ o.seq <= ckpt'.cursor => o \in ckpt'.ops
        BY <1>7, <2>1 DEF Placed
    <2>6. pend'.dbDrop \/ pend'.collDrop => o \in pend'.ops
        BY <1>5, <2>1 DEF Placed
    <2> QED  BY <1>6, <2>3, <2>4, <2>5, <2>6 DEF Placed
<1> QED  BY <1>1, <1>8 DEF PlacesOk, Known

LEMMA CheckpointPlaces ==
    ASSUME Typed, CursorsOk, PlacesOk, InStep, CheckpointStep
    PROVE  PlacesOk'
<1>1. UNCHANGED <<mem, pend, batch, todo, boots>>  BY CheckpointEffect
<1>2. \A o \in Known : Placed(o)  BY DEF PlacesOk
<1>3. /\ ckpt.phase = "latest" => s3.cursor <= ckpt.cursor
      /\ ckpt.phase = "compact" => ckpt.cursor <= s3.cursor
    BY DEF CursorsOk
<1>4. /\ s3.cursor \in Nat /\ ckpt.cursor \in Nat
      /\ Known \subseteq Op /\ Known \subseteq mem.ops
      /\ \A o \in Known : o.seq \in Nat
    <2>1. Known \subseteq Op  BY DEF Known, Typed, Fields, Memory
    <2>2. \A o \in Known : o.seq \in Nat  BY <2>1, OpFields, Bounds
    <2> QED  BY <2>1, <2>2, Bounds DEF Known, Typed, Fields, Storage, Checkpoint
\* It is enough to look at what changes: the snapshot, the journals, the phase.
<1>5. SUFFICES ASSUME NEW o \in Known
               PROVE  /\ o \in s3.journal => o \in s3'.journal \/ o.seq <= s3'.cursor
                      /\ o.seq <= s3.cursor => o.seq <= s3'.cursor
                      /\ o.seq <= s3'.cursor => o \in s3'.snap
                      /\ ckpt'.phase = "latest" /\ o.seq <= ckpt'.cursor => o \in ckpt'.ops
    BY <1>1, <1>2 DEF PlacesOk, Placed, Known
<1>6. /\ o.seq <= s3.cursor => o \in s3.snap
      /\ ckpt.phase = "latest" /\ o.seq <= ckpt.cursor => o \in ckpt.ops
    BY <1>2 DEF Placed
<1>7. CASE PauseFlushes
    <2>1. /\ s3' = s3
          /\ ckpt' \in {Idle, [phase |-> "reading", ops |-> {}, cursor |-> seq]}
        BY <1>7 DEF PauseFlushes
    <2>2. ckpt'.phase # "latest"  BY <2>1, EmptyValues
    <2> QED  BY <1>6, <2>1, <2>2
<1>8. CASE ReadSegments
    <2>1. s3' = s3 /\ ckpt' = [ckpt EXCEPT !.phase = "latest", !.ops = mem.ops]
        BY <1>8 DEF ReadSegments
    <2>2. ckpt'.ops = mem.ops  BY <2>1 DEF Typed, Fields, Checkpoint
    <2> QED  BY <1>4, <1>6, <2>1, <2>2
<1>9. CASE WriteLatest
    <2>1. /\ ckpt.phase = "latest" /\ s3' = Latest(s3, ckpt)
          /\ ckpt' = [ckpt EXCEPT !.phase = "compact"]
        BY <1>9 DEF WriteLatest
    <2>2. ckpt'.phase # "latest"  BY <2>1 DEF Typed, Fields, Checkpoint
    <2>3. s3'.journal = s3.journal /\ s3'.snap = ckpt.ops /\ s3'.cursor = ckpt.cursor
        BY <2>1, LatestFields DEF Typed, Fields
    <2> QED  BY <1>3, <1>4, <1>6, <2>1, <2>2, <2>3
<1>10. CASE CompactJournals
    <2>1. /\ ckpt.phase = "compact" /\ ckpt' = Idle
          /\ s3' = [s3 EXCEPT !.journal = {x \in @ : x.seq > ckpt.cursor}]
        BY <1>10 DEF CompactJournals, Resumed
    <2>2. /\ s3'.journal = {x \in s3.journal : x.seq > ckpt.cursor}
          /\ s3'.snap = s3.snap /\ s3'.cursor = s3.cursor
        BY <2>1 DEF Typed, Fields, Storage
    <2>3. o.seq > ckpt.cursor \/ o.seq <= s3.cursor  BY <1>3, <1>4, <2>1
    <2> QED  BY <1>6, <2>1, <2>2, <2>3, EmptyValues
<1>11. CASE FailCheckpoint
    <2>1. /\ ckpt' = Idle
          /\ s3' = s3 \/ (ckpt.phase = "latest" /\ s3' = Latest(s3, ckpt))
        BY <1>11 DEF FailCheckpoint, Resumed
    <2>2. CASE s3' = s3  BY <1>6, <2>1, <2>2, EmptyValues
    <2>3. CASE ckpt.phase = "latest" /\ s3' = Latest(s3, ckpt)
        <3>1. s3'.journal = s3.journal /\ s3'.snap = ckpt.ops /\ s3'.cursor = ckpt.cursor
            BY <2>3, LatestFields DEF Typed, Fields
        <3> QED  BY <1>3, <1>4, <1>6, <2>1, <2>3, <3>1, EmptyValues
    <2> QED  BY <2>1, <2>2, <2>3
<1> QED  BY <1>7, <1>8, <1>9, <1>10, <1>11 DEF CheckpointStep

LEMMA PlacesStep ==
    ASSUME Typed, BatchOk, CursorsOk, PlacesOk, [Next]_vars
    PROVE  PlacesOk'
<1> SUFFICES ASSUME InStep' PROVE PlacesOk'  BY DEF PlacesOk
<1>1. CASE Restart
    <2>1. (\A o \in mem'.ops : o.run <= boots) /\ boots' = boots + 1
        BY <1>1, RestartInStep
    <2>2. mem'.ops \subseteq Op /\ boots \in Nat
        <3>1. Typed'  BY StepTyped
        <3> QED  BY <3>1, Bounds DEF Typed, Fields, Memory
    <2>3. Known' = {}  BY <2>1, <2>2, OpFields, Bounds DEF Known
    <2> QED  BY <2>3 DEF PlacesOk
<1>2. CASE ~Restart
    <2>1. InStep /\ ~Crash  BY <1>2, StaysInStep
    <2>2. CASE LogStep  BY <2>1, <2>2, LogEffect DEF PlacesOk, Known, Placed
    <2>3. CASE UNCHANGED vars
        BY <2>1, <2>3 DEF vars, data, PlacesOk, Known, Placed
    <2> QED
        BY <1>2, <2>1, <2>2, <2>3, Steps, InsertPlaces, SchemaPlaces, TakeBatchPlaces,
           FlushCallPlaces, FailFlushPlaces, CheckpointPlaces
<1> QED  BY <1>1, <1>2

----------------------------------------------------------------------------
\* The theorems.

LEMMA InvInit == Init => IInv
<1> SUFFICES ASSUME Init PROVE IInv  OBVIOUS
<1>1. Typed  BY InitTyped
<1>2. /\ mem.ops = {} /\ ~mem.dbGone /\ ~mem.collGone /\ seq = 0 /\ batch = Nothing
      /\ pend = Nothing /\ todo = {} /\ ckpt = Idle
      /\ s3.cursor = 0 /\ ~s3.dbTomb /\ ~s3.collTomb
    BY DEF Init, EmptyStorage
<1>3. BatchOk  BY <1>2, EmptyValues DEF BatchOk
<1>4. RemovedOk  BY <1>2, EmptyValues DEF RemovedOk
<1>5. TombsOk  BY <1>2, EmptyValues DEF TombsOk
<1>6. CursorsOk  BY <1>2, EmptyValues DEF CursorsOk
<1>7. PlacesOk  BY <1>2 DEF PlacesOk, Known
<1> QED  BY <1>1, <1>3, <1>4, <1>5, <1>6, <1>7 DEF IInv

LEMMA InvStep == IInv /\ [Next]_vars => IInv'
BY StepTyped, BatchStep, RemovedStep, TombsStep, CursorsStep, PlacesStep DEF IInv

\* The invariant is about the present; the queues decide what storage will hold.
LEMMA InvForgetsNothing == IInv => NothingForgotten
<1> SUFFICES ASSUME IInv, InStep, NEW o \in Known
             PROVE  o \in Restored(Drained).ops
    BY DEF NothingForgotten, InStep, Known
<1> DEFINE written == Stored(s3, todo, batch)
           snapped == IF ckpt.phase = "latest" THEN Latest(written, ckpt) ELSE written
           final == Stored(snapped, CallsOf(pend), pend)
<1>1. Typed /\ BatchOk /\ Placed(o)  BY DEF IInv, PlacesOk
<1>2. /\ s3 \in Storage /\ pend \in Queue /\ batch \in Queue /\ todo \in SUBSET CallNames
      /\ ckpt \in Checkpoint /\ CallsOf(pend) \in SUBSET CallNames
    BY <1>1, CallsOfMembers DEF Typed, Fields
<1>3. o.seq \in Nat /\ o.seq # 0 /\ s3.cursor \in Nat /\ ckpt.cursor \in Nat
    <2>1. o \in Op  BY <1>1 DEF Known, Typed, Fields, Memory
    <2> QED  BY <1>2, <2>1, OpFields, Bounds DEF Storage, Checkpoint
<1>4. ~mem.dbGone /\ ~mem.collGone  BY DEF IInv, TombsOk, Known
\* After the calls of the batch.
<1>5. /\ written \in Storage
      /\ written.dbTomb = ("untombDb" \notin todo /\ ("tombDb" \in todo \/ s3.dbTomb))
      /\ written.collTomb = ("untombColl" \notin todo
             /\ ("tombColl" \in todo \/ (s3.collTomb /\ "deleteDb" \notin todo)))
    BY <1>2, StoredFields
<1>6. /\ \/ o \in pend.ops \/ o \in written.journal \/ o.seq <= written.cursor
      /\ o.seq <= written.cursor => o \in written.snap
      /\ written.cursor \in {0, s3.cursor}
    <2>1. /\ "deleteDb" \in todo \/ "deleteColl" \in todo =>
                 written.snap = {} /\ written.cursor = 0
          /\ ~("deleteDb" \in todo \/ "deleteColl" \in todo) =>
                 /\ written.snap = s3.snap /\ written.cursor = s3.cursor
                 /\ s3.journal \subseteq written.journal
          /\ "journal" \in todo => batch.ops \subseteq written.journal
        BY <1>2, StoredFields
    <2>2. ASSUME "deleteDb" \in todo \/ "deleteColl" \in todo
          PROVE  /\ batch.dbDrop \/ batch.collDrop
                 /\ batch.ops # {} => "journal" \in todo
        <3>1. "deleteDb" \in CallsOf(batch) \/ "deleteColl" \in CallsOf(batch)
            BY <1>1, <2>2 DEF BatchOk
        <3>2. "journal" \in CallsOf(batch) => "journal" \in todo
            BY <1>1, <2>2, StageFacts DEF BatchOk
        <3> QED  BY <1>2, <3>1, <3>2, CallsOfMembers
    <2> HIDE DEF written
    <2> QED  BY <1>1, <1>3, <2>1, <2>2 DEF Placed
<1> HIDE DEF written
\* After the checkpoint that is being written.
<1>7. /\ snapped \in Storage
      /\ snapped.dbTomb = written.dbTomb /\ snapped.collTomb = written.collTomb
      /\ \/ o \in pend.ops \/ o \in snapped.journal \/ o.seq <= snapped.cursor
      /\ o.seq <= snapped.cursor => o \in snapped.snap
      /\ snapped.cursor \in Nat
    <2>1. CASE ckpt.phase = "latest"
        <3>1. /\ snapped \in Storage
              /\ snapped.dbTomb = written.dbTomb /\ snapped.collTomb = written.collTomb
              /\ snapped.journal = written.journal /\ snapped.snap = ckpt.ops
              /\ snapped.cursor = ckpt.cursor
            BY <1>2, <1>5, <2>1, LatestFields
        <3>2. o.seq <= ckpt.cursor => o \in ckpt.ops  BY <1>1, <2>1 DEF Placed
        <3>3. s3.cursor <= ckpt.cursor  BY <2>1 DEF IInv, CursorsOk
        <3> HIDE DEF snapped
        <3> QED  BY <1>3, <1>6, <3>1, <3>2, <3>3
    <2>2. CASE ckpt.phase # "latest"  BY <1>3, <1>5, <1>6, <2>2
    <2> QED  BY <2>1, <2>2
<1> HIDE DEF snapped
\* After the flush of what is pending.
<1>8. /\ pend.dbDrop \/ pend.collDrop => o \in pend.ops
      /\ "deleteDb" \in CallsOf(pend) <=> pend.dbDrop
      /\ "deleteColl" \in CallsOf(pend) <=> pend.collDrop
      /\ "tombDb" \in CallsOf(pend) <=> pend.dbDrop
      /\ "tombColl" \in CallsOf(pend) <=> pend.collDrop
      /\ "untombDb" \in CallsOf(pend) <=> pend.db
      /\ "untombColl" \in CallsOf(pend) <=> pend.meta
      /\ "journal" \in CallsOf(pend) <=> pend.ops # {}
    BY <1>1, <1>2, CallsOfMembers DEF Placed
<1>9. o \in final.journal \/ o.seq <= final.cursor
    <2>1. /\ ~("deleteDb" \in CallsOf(pend) \/ "deleteColl" \in CallsOf(pend)) =>
                 final.cursor = snapped.cursor /\ snapped.journal \subseteq final.journal
          /\ "journal" \in CallsOf(pend) => pend.ops \subseteq final.journal
        BY <1>2, <1>7, StoredFields
    <2> HIDE DEF final
    <2> QED  BY <1>7, <1>8, <2>1
<1>10. o.seq <= final.cursor => o \in final.snap
    <2>1. "deleteDb" \in CallsOf(pend) \/ "deleteColl" \in CallsOf(pend) =>
              final.cursor = 0
        BY <1>2, <1>7, StoredFields
    <2>2. ~("deleteDb" \in CallsOf(pend) \/ "deleteColl" \in CallsOf(pend)) =>
              final.cursor = snapped.cursor /\ final.snap = snapped.snap
        BY <1>2, <1>7, StoredFields
    <2> HIDE DEF final
    <2> QED  BY <1>3, <1>7, <2>1, <2>2
<1>11. ~final.dbTomb /\ ~final.collTomb
    <2>1. /\ "untombDb" \in CallsOf(pend) => ~final.dbTomb
          /\ "tombDb" \notin CallsOf(pend) /\ ~snapped.dbTomb => ~final.dbTomb
        BY DEF Stored
    <2>2. /\ "untombColl" \in CallsOf(pend) => ~final.collTomb
          /\ "tombColl" \notin CallsOf(pend) /\ ~snapped.collTomb => ~final.collTomb
        BY DEF Stored
    <2>3. /\ \/ pend.db
             \/ /\ ~pend.dbDrop
                /\ "untombDb" \in todo \/ ("tombDb" \notin todo /\ ~s3.dbTomb)
          /\ \/ pend.meta
             \/ /\ ~pend.collDrop
                /\ "untombColl" \in todo \/ ("tombColl" \notin todo /\ ~s3.collTomb)
        BY <1>4 DEF IInv, TombsOk
    <2> HIDE DEF final
    <2>4. ~final.dbTomb  BY <1>5, <1>7, <1>8, <2>1, <2>3
    <2>5. ~final.collTomb  BY <1>5, <1>7, <1>8, <2>2, <2>3
    <2> QED  BY <2>4, <2>5
<1>12. final.cursor \in Nat
    <2>1. final \in Storage  BY <1>2, <1>7, StoredFields
    <2> QED  BY <2>1, Bounds DEF Storage
<1>13. Drained = final  BY DEF Drained, final, snapped, written
<1> HIDE DEF final
<1>14. Restored(final).ops = final.snap \cup {x \in final.journal : x.seq > final.cursor}
    BY <1>11 DEF Restored
<1> QED  BY <1>3, <1>9, <1>10, <1>12, <1>13, <1>14

THEOREM InvAlways == Spec => []IInv
<1>1. Init => IInv  BY InvInit
<1>2. IInv /\ [Next]_vars => IInv'  BY InvStep
<1> QED  BY <1>1, <1>2, PTL DEF Spec

(***************************************************************************)
(* Every queue, the log, storage and the checkpoint in progress keep their  *)
(* types (src/persistence.js, src/local-wal.js).                            *)
(***************************************************************************)
THEOREM PersistenceTypes == Spec => []TypeOK
<1>1. IInv => TypeOK  BY TypedIsTypeOK DEF IInv
<1> QED  BY <1>1, InvAlways, PTL

(***************************************************************************)
(* Nothing that memory accepted is forgotten (_flushOnce, its requeueing,   *)
(* _writeSnapshot, _compactJournals), whatever fails or stops meanwhile.    *)
(***************************************************************************)
THEOREM NothingIsForgotten == Spec => []NothingForgotten
<1>1. IInv => NothingForgotten  BY InvForgetsNothing
<1> QED  BY <1>1, InvAlways, PTL

----------------------------------------------------------------------------
\* The queues lead to memory.

\* Storage and queues together are exactly what memory shows.
Clean == replayed = {} /\ lapses = {}
Exact == up /\ Clean

Wipes(p) == p.dbDrop \/ p.collDrop
Deleting == "deleteDb" \in todo \/ "deleteColl" \in todo

\* What the calls that were made have left in storage: the journals are written last,
\* and behind a tombstone there is none.
StorageOk ==
    Clean =>
        /\ "journal" \notin todo => batch.ops \subseteq s3.journal
        /\ s3.dbTomb \/ ("tombDb" \in todo /\ "deleteDb" \notin todo) => s3.journal = {}
        /\ s3.collTomb \/ ("tombColl" \in todo /\ "deleteColl" \notin todo)
               => s3.journal = {}
        /\ Wipes(batch) /\ ~Deleting =>
               s3.snap = {} /\ s3.cursor = 0 /\ s3.journal \subseteq batch.ops

\* Operations are queued for what exists, and journalled where nothing hides them.
QueuesOk ==
    Exact =>
        /\ mem.dbGone =>
               /\ ~pend.db
               /\ pend.dbDrop \/ (~batch.db /\ ("tombDb" \in todo \/ s3.dbTomb))
        /\ pend.ops # {} => ~mem.dbGone /\ ~mem.collGone
        /\ batch.ops # {} => Wipes(pend) \/ (~mem.dbGone /\ ~mem.collGone)
        /\ "journal" \in todo =>
               /\ "untombDb" \in todo \/ ("tombDb" \notin todo /\ ~s3.dbTomb)
               /\ "untombColl" \in todo \/ ("tombColl" \notin todo /\ ~s3.collTomb)

\* Shown by a restart that follows the queues, with this snapshot and its cursor.
Shown(o, snap, cursor) ==
    IF Wipes(pend) THEN o \in pend.ops
    ELSE IF Deleting THEN o \in batch.ops \cup pend.ops
    ELSE o \in snap \/ (cursor < o.seq /\ o \in s3.journal \cup batch.ops \cup pend.ops)

\* Memory is what a restart will show, whether a checkpoint in progress ends or not.
MemoryOk ==
    Exact =>
        /\ \A o \in Op : o \in mem.ops <=> Shown(o, s3.snap, s3.cursor)
        /\ ckpt.phase = "latest" =>
               \A o \in Op : o \in mem.ops <=> Shown(o, ckpt.ops, ckpt.cursor)

QueueInv == IInv /\ StorageOk /\ QueuesOk /\ MemoryOk

----------------------------------------------------------------------------
\* The calls again: what storage contains after them, exactly.

LEMMA StoredContents ==
    ASSUME NEW s \in Storage, NEW calls \in SUBSET CallNames, NEW b \in Queue
    PROVE  LET t == Stored(s, calls, b)
               wiped == "deleteDb" \in calls \/ "deleteColl" \in calls IN
           \A o : o \in t.journal <=> \/ ~wiped /\ o \in s.journal
                                      \/ "journal" \in calls /\ o \in b.ops
<1> DEFINE t == Stored(s, calls, b)
           wiped == calls \cap {"deleteDb", "deleteColl"} # {}
<1>1. t.journal = (IF wiped THEN {} ELSE s.journal) \cup If("journal" \in calls, b.ops)
    BY DEF Stored
<1>2. wiped <=> "deleteDb" \in calls \/ "deleteColl" \in calls  OBVIOUS
<1>3. \A o : o \in If("journal" \in calls, b.ops) <=> "journal" \in calls /\ o \in b.ops
    BY DEF If
<1> HIDE DEF wiped, t
<1> QED  BY <1>1, <1>2, <1>3 DEF t

LEMMA OneCallContents ==
    ASSUME Typed, NEW call \in todo
    PROVE  LET t == Stored(s3, {call}, batch) IN
           /\ call \in {"deleteDb", "deleteColl"} =>
                  t.snap = {} /\ t.cursor = 0 /\ t.journal = {}
           /\ call \notin {"deleteDb", "deleteColl"} =>
                  t.snap = s3.snap /\ t.cursor = s3.cursor
           /\ call = "journal" => t.journal = s3.journal \cup batch.ops
           /\ call \notin {"deleteDb", "deleteColl", "journal"} => t.journal = s3.journal
<1> DEFINE calls == {call}
           t == Stored(s3, calls, batch)
<1>1. calls \in SUBSET CallNames /\ s3 \in Storage /\ batch \in Queue
    BY DEF Typed, Fields
<1>2. \A c : c \in calls <=> c = call  OBVIOUS
<1>3. t = Stored(s3, {call}, batch)  OBVIOUS
<1> HIDE DEF calls
<1>4. /\ "deleteDb" \in calls \/ "deleteColl" \in calls => t.snap = {} /\ t.cursor = 0
      /\ ~("deleteDb" \in calls \/ "deleteColl" \in calls) =>
             t.snap = s3.snap /\ t.cursor = s3.cursor
    BY <1>1, StoredFields
<1>5. \A o : o \in t.journal <=>
                 \/ ~("deleteDb" \in calls \/ "deleteColl" \in calls) /\ o \in s3.journal
                 \/ "journal" \in calls /\ o \in batch.ops
    BY <1>1, StoredContents
<1> HIDE DEF t
<1>6. CASE call \in {"deleteDb", "deleteColl"}
    <2>1. "journal" \notin calls /\ ("deleteDb" \in calls \/ "deleteColl" \in calls)
        BY <1>2, <1>6
    <2>2. t.journal = {}  BY <1>5, <2>1
    <2> QED  BY <1>3, <1>4, <1>6, <2>1, <2>2
<1>7. CASE call \notin {"deleteDb", "deleteColl"}
    <2>1. ~("deleteDb" \in calls \/ "deleteColl" \in calls)  BY <1>2, <1>7
    <2>2. call = "journal" => t.journal = s3.journal \cup batch.ops
        <3> SUFFICES ASSUME call = "journal" PROVE t.journal = s3.journal \cup batch.ops
            OBVIOUS
        <3>1. "journal" \in calls  BY <1>2
        <3>2. \A o : o \in t.journal <=> o \in s3.journal \cup batch.ops
            BY <1>5, <2>1, <3>1
        <3> QED  BY <3>2
    <2>3. call # "journal" => t.journal = s3.journal
        <3> SUFFICES ASSUME call # "journal" PROVE t.journal = s3.journal  OBVIOUS
        <3>1. "journal" \notin calls  BY <1>2
        <3>2. \A o : o \in t.journal <=> o \in s3.journal  BY <1>5, <2>1, <3>1
        <3> QED  BY <3>2
    <2> QED  BY <1>3, <1>4, <1>7, <2>1, <2>2, <2>3
<1> QED  BY <1>6, <1>7

\* What remains to be called before and after the call that is next.
LEMMA CallOrder ==
    ASSUME Typed, BatchOk, NEW call \in todo, IsNext(call)
    PROVE  /\ call = "journal" => todo = {"journal"}
           /\ call = "truncate" => todo = {"truncate"}
           /\ call = "tombDb" => "deleteDb" \notin todo
           /\ call = "tombColl" => "deleteColl" \notin todo /\ "deleteDb" \notin todo
           /\ "tombDb" \in todo => batch.dbDrop
           /\ "tombColl" \in todo => batch.collDrop
           /\ "deleteDb" \in todo \/ "deleteColl" \in todo => Wipes(batch)
           /\ "deleteDb" \in todo /\ batch.collDrop => "deleteColl" \in todo
           /\ ("deleteDb" \in todo \/ "deleteColl" \in todo) /\ batch.ops # {} =>
                  "journal" \in todo
           /\ batch.ops # {} <=> "journal" \in CallsOf(batch)
<1>1. /\ batch \in Queue /\ todo \subseteq CallsOf(batch) \cup {"truncate"}
      /\ todo \subseteq CallNames
    BY DEF Typed, Fields, BatchOk
<1>2. \A other \in todo : Stage[call] <= Stage[other]  BY DEF IsNext
<1>3. \A c \in CallsOf(batch), d \in todo : Stage[d] < Stage[c] => c \in todo  BY DEF BatchOk
<1>4. /\ "tombDb" \in todo => batch.dbDrop
      /\ "tombColl" \in todo => batch.collDrop
      /\ "deleteDb" \in todo \/ "deleteColl" \in todo => Wipes(batch)
      /\ batch.ops # {} <=> "journal" \in CallsOf(batch)
    BY <1>1, CallsOfMembers DEF Wipes
<1>5. /\ "deleteDb" \in todo /\ batch.collDrop => "deleteColl" \in todo
      /\ ("deleteDb" \in todo \/ "deleteColl" \in todo) /\ batch.ops # {} =>
             "journal" \in todo
    BY <1>1, <1>3, CallsOfMembers, StageFacts
<1>6. /\ call = "tombDb" => "deleteDb" \notin todo
      /\ call = "tombColl" => "deleteColl" \notin todo /\ "deleteDb" \notin todo
    BY <1>2, StageFacts
<1>7. call = "truncate" => todo = {"truncate"}  BY DEF BatchOk
<1>8. call = "journal" => todo = {"journal"}
    <2> SUFFICES ASSUME call = "journal", NEW d \in todo PROVE d = "journal"  OBVIOUS
    <2>1. d # "truncate"  BY DEF BatchOk
    <2>2. Stage[call] <= Stage[d] /\ d \in CallNames  BY <1>1, <1>2
    <2>3. d \notin {"deleteDb", "tombDb", "deleteColl", "tombColl", "untombDb", "untombColl"}
        BY <2>2, StageFacts
    <2> QED  BY <2>1, <2>2, <2>3 DEF CallNames
<1> QED  BY <1>4, <1>5, <1>6, <1>7, <1>8

\* A process that has lapsed stays so, and so does one that has replayed the log.
LEMMA StaysClean ==
    ASSUME [Next]_vars, Clean', Typed
    PROVE  /\ Clean
           /\ ~Restart /\ up' => Exact /\ ~Crash
           /\ Restart => Range(wal) = {}
<1>1. CASE Restart
    <2>1. /\ replayed' = replayed \cup {r.type : r \in Range(wal)}
          /\ lapses \subseteq lapses' /\ ~up
        BY <1>1 DEF Restart
    <2> QED  BY <1>1, <2>1 DEF Clean
<1>2. CASE Crash  BY <1>2 DEF Crash, Clean, Restart
<1>3. CASE ~Restart /\ ~Crash
    <2>1. up' = up /\ replayed' = replayed /\ lapses \subseteq lapses'
        BY <1>3, Steps, SchemaEffect, FlushCallEffect, FailFlushEffect, TakeBatchEffect,
           CheckpointEffect, LogEffect DEF Insert, vars
    <2> QED  BY <1>3, <2>1 DEF Clean, Exact
<1> QED  BY <1>1, <1>2, <1>3

LEMMA ExactIsInStep == Exact => InStep
BY DEF Exact, Clean, InStep

\* A checkpoint only takes away from the journals, and never while a flush runs.
LEMMA CheckpointJournals ==
    ASSUME Typed, BatchOk, CheckpointStep
    PROVE  /\ s3'.journal \subseteq s3.journal /\ todo = {} /\ batch = Nothing
<1>1. todo = {}
    BY DEF CheckpointStep, PauseFlushes, ReadSegments, WriteLatest,
           CompactJournals, FailCheckpoint, BatchOk
<1>2. WriteLatest => s3'.journal \subseteq s3.journal
    BY LatestFields DEF WriteLatest, Typed, Fields
<1>3. CompactJournals => s3'.journal \subseteq s3.journal
    BY DEF CompactJournals, Typed, Fields, Storage
<1>4. FailCheckpoint => s3'.journal \subseteq s3.journal
    BY LatestFields DEF FailCheckpoint, Typed, Fields
<1>5. PauseFlushes \/ ReadSegments => s3'.journal \subseteq s3.journal
    BY DEF PauseFlushes, ReadSegments
<1>6. s3'.journal \subseteq s3.journal
    BY <1>2, <1>3, <1>4, <1>5 DEF CheckpointStep
<1>7. batch = Nothing  BY <1>1 DEF BatchOk
<1> QED  BY <1>1, <1>6, <1>7

\* One call keeps the journals of what is removed empty.
Cleared(t, left) ==
    /\ t.dbTomb \/ ("tombDb" \in left /\ "deleteDb" \notin left) => t.journal = {}
    /\ t.collTomb \/ ("tombColl" \in left /\ "deleteColl" \notin left) => t.journal = {}

LEMMA CallClears ==
    ASSUME Typed, BatchOk, StorageOk, QueuesOk, Exact, NEW call \in todo, IsNext(call),
           NEW left \in SUBSET (todo \ {call}), left = {} \/ left = todo \ {call}
    PROVE  Cleared(Stored(s3, {call}, batch), left)
<1> DEFINE t == Stored(s3, {call}, batch)
<1>1. /\ t.dbTomb = (call # "untombDb" /\ (call = "tombDb" \/ s3.dbTomb))
      /\ t.collTomb = (call # "untombColl"
             /\ (call = "tombColl" \/ (s3.collTomb /\ call # "deleteDb")))
    BY OneCallStored
<1>2. /\ call \in {"deleteDb", "deleteColl"} => t.journal = {}
      /\ call \notin {"deleteDb", "deleteColl", "journal"} => t.journal = s3.journal
    BY OneCallContents
<1>3. /\ s3.dbTomb \/ ("tombDb" \in todo /\ "deleteDb" \notin todo) => s3.journal = {}
      /\ s3.collTomb \/ ("tombColl" \in todo /\ "deleteColl" \notin todo)
             => s3.journal = {}
    BY DEF StorageOk, Exact
<1>4. /\ call = "journal" => todo = {"journal"}
      /\ call = "tombDb" => "deleteDb" \notin todo
      /\ call = "tombColl" => "deleteColl" \notin todo
    BY CallOrder
<1>5. call = "journal" => ~s3.dbTomb /\ ~s3.collTomb  BY <1>4 DEF QueuesOk
<1> HIDE DEF t
<1>6. CASE call \in {"deleteDb", "deleteColl"}  BY <1>2, <1>6 DEF Cleared, t
<1>7. CASE call = "journal"
    <2>1. "tombDb" \notin left /\ "tombColl" \notin left  BY <1>4, <1>7
    <2> QED  BY <1>1, <1>5, <1>7, <2>1 DEF Cleared, t
<1>8. CASE call \notin {"deleteDb", "deleteColl", "journal"}
    <2>1. t.journal = s3.journal  BY <1>2, <1>8
    <2>2. t.dbTomb => s3.journal = {}  BY <1>1, <1>3, <1>4
    <2>3. t.collTomb => s3.journal = {}  BY <1>1, <1>3, <1>4
    <2>4. "tombDb" \in left /\ "deleteDb" \notin left => s3.journal = {}
        BY <1>3, <1>8
    <2>5. "tombColl" \in left /\ "deleteColl" \notin left => s3.journal = {}
        BY <1>3, <1>8
    <2> QED  BY <2>1, <2>2, <2>3, <2>4, <2>5 DEF Cleared, t
<1> QED  BY <1>6, <1>7, <1>8

\* The calls that remain, but for a truncation.
LEMMA CallsLeft ==
    ASSUME Typed, BatchOk, FlushCall
    PROVE  \E call \in todo :
               /\ IsNext(call) /\ s3' = Stored(s3, {call}, batch)
               /\ todo' = todo \ {call} \/ (todo = {call} /\ todo' = {"truncate"})
               /\ todo' = {} => batch' = Nothing
               /\ todo' # {} => batch' = batch
               /\ up /\ UNCHANGED <<mem, seq, pend, ckpt>>
<1>1. PICK call \in todo :
        /\ IsNext(call) /\ s3' = Stored(s3, {call}, batch) /\ up
        /\ todo' = IF todo = {call} /\ call # "truncate" /\ MayTruncate
                   THEN {"truncate"} ELSE todo \ {call}
        /\ batch' = IF todo' = {} THEN Nothing ELSE batch
        /\ UNCHANGED <<mem, seq, pend, ckpt>>
    BY DEF FlushCall
<1> QED  BY <1>1

LEMMA StorageStep ==
    ASSUME Typed, BatchOk, StorageOk, QueuesOk, [Next]_vars
    PROVE  StorageOk'
<1> SUFFICES ASSUME Clean'
             PROVE  /\ ("journal" \notin todo => batch.ops \subseteq s3.journal)'
                    /\ Cleared(s3, todo)'
                    /\ (Wipes(batch) /\ ~Deleting =>
                            s3.snap = {} /\ s3.cursor = 0 /\ s3.journal \subseteq batch.ops)'
    BY DEF StorageOk, Cleared
<1>1. Clean /\ (~Restart /\ up' => Exact)  BY StaysClean
<1>2. /\ "journal" \notin todo => batch.ops \subseteq s3.journal
      /\ Cleared(s3, todo)
      /\ Wipes(batch) /\ ~Deleting =>
             s3.snap = {} /\ s3.cursor = 0 /\ s3.journal \subseteq batch.ops
    BY <1>1 DEF StorageOk, Cleared
<1>3. CASE UNCHANGED <<batch, todo, s3>>  BY <1>2, <1>3 DEF Cleared, Wipes, Deleting
<1>4. Insert \/ SchemaStep \/ LogStep \/ Restart \/ UNCHANGED vars
          => UNCHANGED <<batch, todo, s3>>
    BY SchemaEffect, LogEffect DEF Insert, Restart, vars, data
<1>5. CASE StartFlush \/ RequestCheckpoint
    <2>1. CASE UNCHANGED <<pend, batch, todo>>
        BY <1>3, <1>5, <2>1, TakeBatchEffect
    <2>2. CASE todo' = CallsOf(pend) /\ batch' = pend
        <3>1. s3' = s3  BY <1>5, TakeBatchEffect
        <3>2. /\ "deleteDb" \in todo' <=> batch'.dbDrop
              /\ "tombDb" \in todo' <=> batch'.dbDrop
              /\ "deleteColl" \in todo' <=> batch'.collDrop
              /\ "tombColl" \in todo' <=> batch'.collDrop
              /\ "journal" \in todo' <=> batch'.ops # {}
            BY <2>2, CallsOfMembers DEF Typed, Fields
        <3>3. Cleared(s3, todo)'  BY <1>2, <3>1, <3>2 DEF Cleared
        <3>4. (Wipes(batch) => Deleting)'  BY <3>2 DEF Wipes, Deleting
        <3> QED  BY <3>2, <3>3, <3>4
    <2> QED  BY <1>5, <2>1, <2>2, TakeBatchEffect
<1>6. CASE FlushCall
    <2>1. PICK call \in todo :
            /\ IsNext(call) /\ s3' = Stored(s3, {call}, batch)
            /\ todo' = todo \ {call} \/ (todo = {call} /\ todo' = {"truncate"})
            /\ todo' = {} => batch' = Nothing
            /\ todo' # {} => batch' = batch
            /\ up
        BY <1>6, CallsLeft
    <2>2. Exact  BY <1>1, <2>1 DEF Exact
    <2>3. /\ call \in {"deleteDb", "deleteColl"} =>
                 s3'.snap = {} /\ s3'.cursor = 0 /\ s3'.journal = {}
          /\ call \notin {"deleteDb", "deleteColl"} =>
                 s3'.snap = s3.snap /\ s3'.cursor = s3.cursor
          /\ call = "journal" => s3'.journal = s3.journal \cup batch.ops
          /\ call \notin {"deleteDb", "deleteColl", "journal"} => s3'.journal = s3.journal
        BY <2>1, OneCallContents
    <2>4. Cleared(s3, todo)'
        <3>1. Cleared(s3', todo \ {call}) /\ Cleared(s3', {})
            <4>1. /\ todo \ {call} \in SUBSET (todo \ {call})
                  /\ {} \in SUBSET (todo \ {call})
                OBVIOUS
            <4> QED  BY <2>1, <2>2, <4>1, CallClears
        <3>2. CASE todo' = todo \ {call}  BY <3>1, <3>2
        <3>3. CASE todo' = {"truncate"}  BY <3>1, <3>3 DEF Cleared
        <3> QED  BY <2>1, <3>2, <3>3
    <2>5. ASSUME "journal" \notin todo' PROVE batch'.ops \subseteq s3'.journal
        <3>1. CASE todo' = {}  BY <2>1, <3>1, EmptyValues
        <3>2. CASE todo' # {}
            <4>1. batch' = batch  BY <2>1, <3>2
            <4>2. CASE call = "journal"  BY <2>3, <4>1, <4>2
            <4>3. CASE call # "journal"
                <5>1. "journal" \notin todo  BY <2>1, <2>5, <4>3
                <5>2. call \in {"deleteDb", "deleteColl"} => batch.ops = {}
                    BY <2>1, <5>1, CallOrder
                <5> QED  BY <1>2, <2>3, <4>1, <4>3, <5>1, <5>2
            <4> QED  BY <4>2, <4>3
        <3> QED  BY <3>1, <3>2
    <2>6. ASSUME Wipes(batch)', ~Deleting'
          PROVE  s3'.snap = {} /\ s3'.cursor = 0 /\ s3'.journal \subseteq batch'.ops
        <3>1. CASE todo' = {}  BY <2>1, <2>6, <3>1, EmptyValues DEF Wipes
        <3>2. CASE todo' # {}
            <4>1. batch' = batch  BY <2>1, <3>2
            <4>2. CASE call \in {"deleteDb", "deleteColl"}  BY <2>3, <4>2
            <4>3. CASE call \notin {"deleteDb", "deleteColl"}
                <5>1. ~Deleting  BY <2>1, <2>6, <4>3 DEF Deleting
                <5>2. Wipes(batch)  BY <2>6, <4>1 DEF Wipes
                <5> QED  BY <1>2, <2>3, <4>1, <4>3, <5>1, <5>2
            <4> QED  BY <4>2, <4>3
        <3> QED  BY <3>1, <3>2
    <2> QED  BY <2>4, <2>5, <2>6
<1>7. CASE FailFlush
    <2>1. PICK call \in todo :
            /\ IsNext(call) /\ s3' \in {s3, Stored(s3, {call}, batch)}
            /\ batch' = Nothing /\ todo' = {}
        BY <1>7, FailFlushEffect
    <2>2. Exact  BY <1>1, <1>7 DEF Exact, FailFlush
    <2>3. Cleared(s3, todo)'
        <3>1. {} \in SUBSET (todo \ {call})  OBVIOUS
        <3>2. Cleared(Stored(s3, {call}, batch), {})  BY <2>1, <2>2, <3>1, CallClears
        <3>3. Cleared(s3, {})  BY <1>2 DEF Cleared
        <3> QED  BY <2>1, <3>2, <3>3
    <2> QED  BY <2>1, <2>3, EmptyValues DEF Wipes
<1>8. CASE CheckpointStep
    <2>1. /\ UNCHANGED <<batch, todo>>
          /\ s3'.dbTomb = s3.dbTomb /\ s3'.collTomb = s3.collTomb
        BY <1>8, CheckpointEffect
    <2>2. s3'.journal \subseteq s3.journal /\ todo = {} /\ batch = Nothing
        BY <1>8, CheckpointJournals
    <2>3. Cleared(s3, todo)'  BY <1>2, <2>1, <2>2 DEF Cleared
    <2> QED  BY <2>1, <2>2, <2>3, EmptyValues DEF Wipes
<1>9. CASE Crash
    <2>1. s3' = s3 /\ batch' = Nothing /\ todo' = {}  BY <1>9 DEF Crash
    <2>2. Cleared(s3, todo)'  BY <1>2, <2>1 DEF Cleared
    <2> QED  BY <2>1, <2>2, EmptyValues DEF Wipes
<1> QED
    BY <1>3, <1>4, <1>5, <1>6, <1>7, <1>8, <1>9, Steps

\* What the lapses leave out.
LEMMA WithoutLapses ==
    ASSUME Clean'
    PROVE  /\ CreateDatabase => ~pend.dbDrop
           /\ FailFlush /\ Wipes(pend) => batch.ops = {} /\ ~batch.db /\ ~batch.meta
           /\ Restart /\ (s3.dbTomb \/ s3.collTomb) => s3.snap = {}
<1>1. lapses' = {}  BY DEF Clean
<1>2. CreateDatabase => ~pend.dbDrop  BY <1>1 DEF CreateDatabase, If
<1>3. FailFlush /\ Wipes(pend) => batch.ops = {} /\ ~batch.db /\ ~batch.meta
    BY <1>1 DEF FailFlush, If, Wipes
<1>4. Restart /\ (s3.dbTomb \/ s3.collTomb) => s3.snap = {}  BY <1>1 DEF Restart, If
<1> QED  BY <1>2, <1>3, <1>4

LEMMA QueuesStep ==
    ASSUME IInv, StorageOk, QueuesOk, [Next]_vars
    PROVE  QueuesOk'
<1> DEFINE Gone1 == mem.dbGone =>
               /\ ~pend.db
               /\ pend.dbDrop \/ (~batch.db /\ ("tombDb" \in todo \/ s3.dbTomb))
           Gone2 == /\ pend.ops # {} => ~mem.dbGone /\ ~mem.collGone
                    /\ batch.ops # {} => Wipes(pend) \/ (~mem.dbGone /\ ~mem.collGone)
           Open == "journal" \in todo =>
               /\ "untombDb" \in todo \/ ("tombDb" \notin todo /\ ~s3.dbTomb)
               /\ "untombColl" \in todo \/ ("tombColl" \notin todo /\ ~s3.collTomb)
<1> SUFFICES ASSUME Exact' PROVE Gone1' /\ Gone2' /\ Open'  BY DEF QueuesOk
<1>1. Typed /\ BatchOk /\ Clean'  BY DEF IInv, Exact
<1>2. CASE Restart
    <2>1. /\ mem'.dbGone = s3.dbTomb /\ pend' = Nothing /\ todo' = {} /\ s3' = s3
        BY <1>1, <1>2, ExactIsInStep, RestartInStep DEF Exact, Clean, InStep
    <2>2. batch' = Nothing  BY <1>1, <1>2 DEF Restart, Typed, DownOk
    <2> QED  BY <2>1, <2>2, EmptyValues
<1> SUFFICES ASSUME ~Restart PROVE Gone1' /\ Gone2' /\ Open'  BY <1>2
<1>3. Exact /\ ~Crash  BY <1>1, StaysClean DEF Exact
<1>4. Gone1 /\ Gone2 /\ Open  BY <1>3 DEF QueuesOk
<1>5. /\ pend \in Queue /\ batch \in Queue  BY <1>1 DEF Typed, Fields
<1>6. CASE Insert
    <2>1. /\ ~mem.dbGone /\ ~mem.collGone /\ UNCHANGED <<batch, todo, s3>>
          /\ mem'.dbGone = mem.dbGone /\ mem'.collGone = mem.collGone
        BY <1>1, <1>6 DEF Insert, Typed, Fields, Memory
    <2> QED  BY <1>4, <2>1
<1>7. CASE SchemaStep
    <2>1. UNCHANGED <<batch, todo, s3>>  BY <1>7, SchemaEffect
    <2>2. CreateDatabase => ~pend.dbDrop  BY <1>1, WithoutLapses
    <2>3. /\ CreateDatabase => ~mem'.dbGone /\ mem'.collGone = mem.collGone
          /\ RemoveDatabase => mem'.dbGone /\ mem'.collGone = mem.collGone
          /\ CreateCollection => mem'.dbGone = mem.dbGone /\ ~mem'.collGone
          /\ RemoveCollection => mem'.dbGone = mem.dbGone /\ mem'.collGone
        BY <1>1, <1>7, SchemaMemory
    <2>4. /\ CreateDatabase => pend'.ops = pend.ops /\ pend'.collDrop = pend.collDrop
          /\ CreateCollection =>
                 /\ pend'.ops = pend.ops /\ pend'.db = pend.db
                 /\ pend'.dbDrop = pend.dbDrop /\ pend'.collDrop = pend.collDrop
          /\ RemoveCollection => pend'.db = pend.db /\ pend'.dbDrop = pend.dbDrop
        BY <1>1, <1>7, SchemaQueue
    <2>5. RemoveDatabase => pend'.ops = {} /\ ~pend'.db /\ pend'.dbDrop
        BY QueueDatabaseDropFields DEF RemoveDatabase
    <2>6. RemoveCollection => pend'.ops = {} /\ pend'.collDrop
        BY <1>5, QueueCollectionDropFields DEF RemoveCollection
    <2>7. Open'  BY <1>4, <2>1
    <2>8. CASE CreateDatabase
        <3>1. Gone1'  BY <2>3, <2>8
        <3>2. Gone2'  BY <1>4, <2>1, <2>2, <2>3, <2>4, <2>8 DEF Wipes
        <3> QED  BY <2>7, <3>1, <3>2
    <2>9. CASE RemoveDatabase
        <3>1. Gone1'  BY <2>5, <2>9
        <3>2. Gone2'  BY <2>5, <2>9 DEF Wipes
        <3> QED  BY <2>7, <3>1, <3>2
    <2>10. CASE CreateCollection
        <3>1. Gone1'  BY <1>4, <2>1, <2>3, <2>4, <2>10
        <3>2. Gone2'  BY <1>4, <2>1, <2>3, <2>4, <2>10 DEF Wipes
        <3> QED  BY <2>7, <3>1, <3>2
    <2>11. CASE RemoveCollection
        <3>1. Gone1'  BY <1>4, <2>1, <2>3, <2>4, <2>11
        <3>2. Gone2'  BY <2>6, <2>11 DEF Wipes
        <3> QED  BY <2>7, <3>1, <3>2
    <2> QED  BY <1>7, <2>8, <2>9, <2>10, <2>11 DEF SchemaStep
<1>8. CASE StartFlush \/ RequestCheckpoint
    <2>1. mem' = mem /\ s3' = s3  BY <1>8, TakeBatchEffect
    <2>2. CASE UNCHANGED <<pend, batch, todo>>  BY <1>4, <2>1, <2>2 DEF Wipes
    <2>3. CASE /\ todo = {} /\ batch' = pend /\ pend' = Nothing /\ todo' = CallsOf(pend)
        <3>1. /\ "tombDb" \in todo' <=> pend.dbDrop
              /\ "tombColl" \in todo' <=> pend.collDrop
              /\ "untombDb" \in todo' <=> pend.db
              /\ "untombColl" \in todo' <=> pend.meta
              /\ "journal" \in todo' <=> pend.ops # {}
            BY <1>5, <2>3, CallsOfMembers
        <3>2. /\ ~mem.dbGone => pend.db \/ (~pend.dbDrop /\ ~s3.dbTomb)
              /\ ~mem.collGone => pend.meta \/ (~pend.collDrop /\ ~s3.collTomb)
            BY <1>3, <2>3, ExactIsInStep DEF IInv, TombsOk
        <3>3. Gone1'  BY <1>4, <2>1, <2>3, <3>1, EmptyValues
        <3>4. Gone2'  BY <1>4, <2>1, <2>3, EmptyValues
        <3>5. Open'  BY <1>4, <2>1, <3>1, <3>2
        <3> QED  BY <3>3, <3>4, <3>5
    <2> QED  BY <1>8, <2>2, <2>3, TakeBatchEffect
<1>9. CASE FlushCall
    <2>1. PICK call \in todo :
            /\ IsNext(call) /\ s3' = Stored(s3, {call}, batch)
            /\ todo' = todo \ {call} \/ (todo = {call} /\ todo' = {"truncate"})
            /\ todo' = {} => batch' = Nothing
            /\ todo' # {} => batch' = batch
            /\ UNCHANGED <<mem, pend>>
        BY <1>1, <1>9, CallsLeft
    <2>2. /\ s3'.dbTomb = (call # "untombDb" /\ (call = "tombDb" \/ s3.dbTomb))
          /\ s3'.collTomb = (call # "untombColl"
                 /\ (call = "tombColl" \/ (s3.collTomb /\ call # "deleteDb")))
        BY <1>1, <2>1, OneCallStored
    <2>3. /\ "untombDb" \in todo => batch.db
          /\ call = "untombDb" => "tombDb" \notin todo
          /\ call = "untombColl" => "tombColl" \notin todo
        BY <1>1, <2>1, NextCall
    <2>4. batch'.ops \subseteq batch.ops /\ (batch'.db => batch.db)
        BY <2>1, EmptyValues
    <2>5. \A c \in todo : c = call \/ c \in todo'  BY <2>1
    <2>6. \A c \in todo' : c # "truncate" => c \in todo  BY <2>1
    <2>7. Gone1'
        <3>1. "tombDb" \in todo => "tombDb" \in todo' \/ s3'.dbTomb  BY <2>2, <2>5
        <3>2. ~batch.db /\ s3.dbTomb => s3'.dbTomb  BY <2>1, <2>2, <2>3
        <3> QED  BY <1>4, <2>1, <2>4, <3>1, <3>2
    <2>8. Gone2'  BY <1>4, <2>1, <2>4 DEF Wipes
    <2>9. Open'
        <3> SUFFICES ASSUME "journal" \in todo'
                     PROVE  /\ "untombDb" \in todo' \/ ("tombDb" \notin todo' /\ ~s3'.dbTomb)
                            /\ "untombColl" \in todo'
                                   \/ ("tombColl" \notin todo' /\ ~s3'.collTomb)
            OBVIOUS
        <3>1. "journal" \in todo  BY <2>6
        <3>2. "tombDb" \in todo' => "tombDb" \in todo  BY <2>6
        <3>3. "tombColl" \in todo' => "tombColl" \in todo  BY <2>6
        <3>4. "untombDb" \in todo' \/ ("tombDb" \notin todo' /\ ~s3'.dbTomb)
            BY <1>4, <2>1, <2>2, <2>3, <2>5, <3>1, <3>2
        <3>5. "untombColl" \in todo' \/ ("tombColl" \notin todo' /\ ~s3'.collTomb)
            BY <1>4, <2>1, <2>2, <2>3, <2>5, <3>1, <3>3
        <3> QED  BY <3>4, <3>5
    <2> QED  BY <2>7, <2>8, <2>9
<1>10. CASE FailFlush
    <2>1. PICK call \in todo :
            /\ IsNext(call) /\ s3' \in {s3, Stored(s3, {call}, batch)}
            /\ pend' = Requeued(pend, batch) /\ batch' = Nothing /\ todo' = {}
            /\ mem' = mem
        BY <1>10, FailFlushEffect
    <2>2. /\ pend'.ops = batch.ops \cup pend.ops
          /\ pend'.db = (pend.db \/ batch.db) /\ pend'.dbDrop = (pend.dbDrop \/ batch.dbDrop)
        BY <1>5, <2>1, RequeuedFields
    <2>3. Wipes(pend) => batch.ops = {} /\ ~batch.db  BY <1>1, <1>10, WithoutLapses
    <2>4. /\ "untombDb" \in todo => batch.db
          /\ "tombDb" \in todo => batch.dbDrop
        BY <1>1, <2>1, NextCall, CallOrder
    <2>5. ~batch.db /\ s3.dbTomb => s3'.dbTomb
        <3>1. Stored(s3, {call}, batch).dbTomb
                  = (call # "untombDb" /\ (call = "tombDb" \/ s3.dbTomb))
            BY <1>1, OneCallStored
        <3> QED  BY <2>1, <2>4, <3>1
    <2>6. Gone1'
        <3>1. pend.dbDrop => ~batch.db  BY <2>3 DEF Wipes
        <3> QED  BY <1>4, <2>1, <2>2, <2>4, <2>5, <3>1, EmptyValues
    <2>7. Gone2'  BY <1>4, <2>1, <2>2, <2>3, EmptyValues
    <2> QED  BY <2>1, <2>6, <2>7
<1>11. CASE CheckpointStep
    <2>1. /\ UNCHANGED <<mem, pend, batch, todo>>
          /\ s3'.dbTomb = s3.dbTomb /\ s3'.collTomb = s3.collTomb
        BY <1>1, <1>11, CheckpointEffect
    <2> QED  BY <1>4, <2>1 DEF Wipes
<1>12. CASE LogStep
    <2>1. UNCHANGED <<mem, pend, batch, todo, s3>>  BY <1>12, LogEffect
    <2> QED  BY <1>4, <2>1 DEF Wipes
<1>13. CASE UNCHANGED vars
    <2>1. UNCHANGED <<mem, pend, batch, todo, s3>>  BY <1>13 DEF vars, data
    <2> QED  BY <1>4, <2>1 DEF Wipes
<1> HIDE DEF Gone1, Gone2, Open
<1> QED
    BY <1>3, <1>6, <1>7, <1>8, <1>9, <1>10, <1>11, <1>12, <1>13, Steps

----------------------------------------------------------------------------
\* What a restart would show, step by step.

\* An empty log is no detour.
LEMMA RecoveredFromStorage ==
    ASSUME Typed, Range(wal) = {}
    PROVE  Recovered.ops = Restored(s3).ops
<1>1. DOMAIN wal = 1..Len(wal) /\ Len(wal) \in Nat  BY LenProperties DEF Typed, LogsOk
<1>2. DOMAIN wal = {}  BY DEF Range
<1>3. Len(wal) = 0  BY <1>1, <1>2
<1>4. Kept(0)  BY <1>3 DEF Kept
<1> DEFINE stored == Restored(s3)
           applied == {i \in DOMAIN wal : /\ wal[i].type = "ops" /\ Kept(i)
                           /\ ~Gone(i, "dropDatabase", "database", stored.dbGone)
                           /\ ~Gone(i, "dropCollection", "meta", stored.collGone)}
<1>5. Recovered.ops = {o \in stored.ops : Kept(0)} \cup {wal[i].op : i \in applied}
    BY DEF Recovered
<1>6. applied = {}  BY <1>2
<1> HIDE DEF applied
<1>7. {wal[i].op : i \in applied} = {}  BY <1>6
<1> HIDE DEF stored
<1>8. {o \in stored.ops : Kept(0)} = stored.ops  BY <1>4
<1> QED  BY <1>5, <1>7, <1>8 DEF stored

LEMMA OpNumbers ==
    ASSUME Typed
    PROVE  /\ \A o \in Op : o.seq \in Nat /\ 0 < o.seq
           /\ s3.cursor \in Nat /\ ckpt.cursor \in Nat /\ seq \in Nat
<1>1. \A o \in Op : o.seq \in Nat /\ 0 < o.seq  BY OpFields, Bounds
<1>2. s3.cursor \in Nat /\ ckpt.cursor \in Nat /\ seq \in Nat
    BY Bounds DEF Typed, Fields, Storage, Checkpoint
<1> QED  BY <1>1, <1>2

\* Nothing that decides what is shown changes.
LEMMA SameShown ==
    ASSUME UNCHANGED <<pend, batch, todo>>, s3'.journal = s3.journal,
           NEW o, NEW snap, NEW cursor, Shown(o, snap, cursor)
    PROVE  Shown(o, snap, cursor)'
BY DEF Shown, Wipes, Deleting

\* What is shown without and with the snapshot that a checkpoint is writing.
StaysShown(o) == o \in mem.ops <=> Shown(o, s3.snap, s3.cursor)
LandsShown(o) == ckpt.phase = "latest" => (o \in mem.ops <=> Shown(o, ckpt.ops, ckpt.cursor))

LEMMA MemorySame ==
    ASSUME NEW o, StaysShown(o), LandsShown(o), UNCHANGED <<mem, pend, batch, todo, s3, ckpt>>
    PROVE  StaysShown(o)' /\ LandsShown(o)'
BY DEF StaysShown, LandsShown, Shown, Wipes, Deleting

LEMMA MemoryRestart ==
    ASSUME Typed, StorageOk, Clean, Restart, Exact', NEW o \in Op
    PROVE  StaysShown(o)' /\ LandsShown(o)'
<1>1. /\ mem'.dbGone = s3.dbTomb /\ mem'.collGone = s3.collTomb
      /\ mem'.dbGone \/ mem'.collGone => mem'.ops = {}
      /\ pend' = Nothing /\ todo' = {} /\ ckpt' = Idle /\ s3' = s3
    BY ExactIsInStep, RestartInStep DEF Exact, Clean, InStep
<1>2. batch' = Nothing  BY DEF Restart, Typed, DownOk
<1>3. mem'.ops = Restored(s3).ops
    <2>1. Range(wal) = {}
        <3>1. replayed' = replayed \cup {r.type : r \in Range(wal)} /\ replayed' = {}
            BY DEF Restart, Exact, Clean
        <3> QED  BY <3>1
    <2>2. mem'.ops = Recovered.ops  BY DEF Restart
    <2> QED  BY <2>1, <2>2, RecoveredFromStorage
<1>4. s3.dbTomb \/ s3.collTomb => s3.snap = {} /\ s3.journal = {}
    <2>1. s3.dbTomb \/ s3.collTomb => s3.snap = {}  BY WithoutLapses DEF Exact
    <2> QED  BY <2>1 DEF StorageOk
<1>5. Shown(o, s3.snap, s3.cursor)' <=> o \in s3.snap \/ (s3.cursor < o.seq /\ o \in s3.journal)
    BY <1>1, <1>2, EmptyValues DEF Shown, Wipes, Deleting
<1>6. s3.dbTomb \/ s3.collTomb \/ o \in Restored(s3).ops
          <=> s3.dbTomb \/ s3.collTomb \/ o \in s3.snap \/ (s3.cursor < o.seq /\ o \in s3.journal)
    <2>1. o.seq > s3.cursor <=> s3.cursor < o.seq  BY OpNumbers
    <2> QED  BY <2>1 DEF Restored
<1>7. StaysShown(o)'  BY <1>1, <1>3, <1>4, <1>5, <1>6 DEF StaysShown
<1>8. LandsShown(o)'  BY <1>1, EmptyValues DEF LandsShown
<1> QED  BY <1>7, <1>8

LEMMA MemoryInsert ==
    ASSUME Typed, CursorsOk, Exact, Insert, NEW o \in Op, StaysShown(o), LandsShown(o)
    PROVE  StaysShown(o)' /\ LandsShown(o)'
<1>1. PICK new : new = [run |-> boots, seq |-> seq + 1]  OBVIOUS
<1>2. /\ mem' = [mem EXCEPT !.ops = @ \cup {new}] /\ pend' = QueueOp(pend, new)
      /\ seq < MaxOps /\ UNCHANGED <<batch, todo, s3, ckpt>>
    BY <1>1 DEF Insert
<1>3. new \in Op /\ new.seq = seq + 1
    BY <1>1, <1>2, Bounds DEF Op, Typed, Fields
<1>4. mem'.ops = mem.ops \cup {new}  BY <1>2 DEF Typed, Fields, Memory
<1>5. /\ pend'.ops = pend.ops \cup {new}
      /\ pend'.dbDrop = pend.dbDrop /\ pend'.collDrop = pend.collDrop
    BY <1>2, <1>3, QueueOpFields DEF Typed, Fields
<1>6. s3.cursor < new.seq /\ (ckpt.phase = "latest" => ckpt.cursor < new.seq)
    <2>1. s3.cursor <= seq /\ ckpt.cursor <= seq  BY ExactIsInStep DEF CursorsOk
    <2> QED  BY <1>3, <2>1, OpNumbers
<1>7. Wipes(pend)' = Wipes(pend) /\ Deleting' = Deleting  BY <1>2, <1>5 DEF Wipes, Deleting
<1>8. /\ Shown(o, s3.snap, s3.cursor)' <=> o = new \/ Shown(o, s3.snap, s3.cursor)
      /\ ckpt.phase = "latest" =>
             (Shown(o, ckpt.ops, ckpt.cursor)' <=> o = new \/ Shown(o, ckpt.ops, ckpt.cursor))
    BY <1>2, <1>5, <1>6, <1>7 DEF Shown
<1>9. StaysShown(o)'  BY <1>4, <1>8 DEF StaysShown
<1>10. LandsShown(o)'  BY <1>2, <1>4, <1>8 DEF LandsShown
<1> QED  BY <1>9, <1>10

LEMMA MemorySchema ==
    ASSUME Typed, Exact', SchemaStep, NEW o \in Op, StaysShown(o), LandsShown(o)
    PROVE  StaysShown(o)' /\ LandsShown(o)'
<1>1. UNCHANGED <<batch, todo, s3, ckpt>>  BY SchemaEffect
<1>2. pend \in Queue /\ mem \in Memory  BY DEF Typed, Fields
<1>3. CASE CreateDatabase \/ CreateCollection
    <2>1. mem'.ops = mem.ops  BY <1>2, <1>3 DEF CreateDatabase, CreateCollection, Memory
    <2>2. CreateDatabase => ~pend.dbDrop  BY WithoutLapses DEF Exact
    <2>3. /\ pend'.ops = pend.ops
          /\ CreateDatabase => ~pend'.dbDrop /\ pend'.collDrop = pend.collDrop
          /\ CreateCollection => pend'.dbDrop = pend.dbDrop /\ pend'.collDrop = pend.collDrop
        BY <1>3, SchemaQueue
    <2>4. Wipes(pend)' <=> Wipes(pend)  BY <1>3, <2>2, <2>3 DEF Wipes
    <2>5. Deleting' = Deleting  BY <1>1 DEF Deleting
    <2>6. StaysShown(o)'  BY <1>1, <2>1, <2>3, <2>4, <2>5 DEF StaysShown, Shown
    <2>7. LandsShown(o)'  BY <1>1, <2>1, <2>3, <2>4, <2>5 DEF LandsShown, Shown
    <2> QED  BY <2>6, <2>7
<1>4. CASE RemoveDatabase \/ RemoveCollection
    <2>1. mem'.ops = {}  BY <1>4, SchemaMemory
    <2>2. RemoveDatabase => pend'.ops = {} /\ pend'.dbDrop
        BY QueueDatabaseDropFields DEF RemoveDatabase
    <2>3. RemoveCollection => pend'.ops = {} /\ pend'.collDrop
        BY <1>2, QueueCollectionDropFields DEF RemoveCollection
    <2>4. Wipes(pend)' /\ pend'.ops = {}  BY <1>4, <2>2, <2>3 DEF Wipes
    <2> QED  BY <2>1, <2>4 DEF StaysShown, LandsShown, Shown
<1> QED  BY <1>3, <1>4 DEF SchemaStep

LEMMA MemoryTake ==
    ASSUME Typed, BatchOk, StartFlush \/ RequestCheckpoint,
           NEW o \in Op, StaysShown(o), LandsShown(o)
    PROVE  StaysShown(o)' /\ LandsShown(o)'
<1>1. /\ UNCHANGED <<mem, s3>> /\ ckpt'.phase # "latest"
    BY TakeBatchEffect, EmptyValues DEF Idle
<1>2. LandsShown(o)'  BY <1>1 DEF LandsShown
<1>3. CASE UNCHANGED <<pend, batch, todo>>
    BY <1>1, <1>2, <1>3 DEF StaysShown, Shown, Wipes, Deleting
<1>4. CASE todo = {} /\ batch' = pend /\ pend' = Nothing /\ todo' = CallsOf(pend)
    <2>1. batch.ops = {} /\ ~Deleting  BY <1>4, EmptyValues DEF BatchOk, Deleting
    <2>2. ~Wipes(pend)' /\ pend'.ops = {}  BY <1>4, EmptyValues DEF Wipes
    <2>3. Deleting' <=> Wipes(pend)
        BY <1>4, CallsOfMembers DEF Wipes, Deleting, Typed, Fields
    <2>4. batch'.ops = pend.ops  BY <1>4
    <2>5. Shown(o, s3.snap, s3.cursor)' <=> Shown(o, s3.snap, s3.cursor)
        BY <1>1, <2>1, <2>2, <2>3, <2>4 DEF Shown
    <2> QED  BY <1>1, <1>2, <2>5 DEF StaysShown
<1> QED  BY <1>3, <1>4, TakeBatchEffect

LEMMA MemoryFlush ==
    ASSUME Typed, BatchOk, StorageOk, Clean, FlushCall, NEW o \in Op, StaysShown(o), LandsShown(o)
    PROVE  StaysShown(o)' /\ LandsShown(o)'
<1>1. PICK call \in todo :
        /\ IsNext(call) /\ s3' = Stored(s3, {call}, batch)
        /\ todo' = todo \ {call} \/ (todo = {call} /\ todo' = {"truncate"})
        /\ todo' = {} => batch' = Nothing
        /\ todo' # {} => batch' = batch
        /\ UNCHANGED <<mem, pend, ckpt>>
    BY CallsLeft
<1>2. /\ call \in {"deleteDb", "deleteColl"} =>
             s3'.snap = {} /\ s3'.cursor = 0 /\ s3'.journal = {}
      /\ call \notin {"deleteDb", "deleteColl"} =>
             s3'.snap = s3.snap /\ s3'.cursor = s3.cursor
      /\ call = "journal" => s3'.journal = s3.journal \cup batch.ops
      /\ call \notin {"deleteDb", "deleteColl", "journal"} => s3'.journal = s3.journal
    BY <1>1, OneCallContents
<1>3. call \in {"deleteDb", "deleteColl"} /\ batch.ops # {} => "journal" \in todo
    BY <1>1, NextCall
<1>4. "journal" \notin todo => batch.ops \subseteq s3.journal  BY DEF StorageOk
<1>5. ckpt.phase # "latest"  BY <1>1, NextCall
<1>6. LandsShown(o)'  BY <1>1, <1>5 DEF LandsShown
<1>7. Wipes(pend)' = Wipes(pend) /\ pend'.ops = pend.ops  BY <1>1 DEF Wipes
<1>8. 0 < o.seq  BY OpNumbers
<1>9. Shown(o, s3.snap, s3.cursor)' <=> Shown(o, s3.snap, s3.cursor)
    <2>1. CASE Wipes(pend)  BY <1>7, <2>1 DEF Shown
    <2>2. CASE ~Wipes(pend) /\ call \in {"deleteDb", "deleteColl"}
        <3>1. Deleting  BY <2>2 DEF Deleting
        <3>2. batch'.ops = batch.ops
            <4>1. CASE todo' # {}  BY <1>1, <4>1
            <4>2. CASE todo' = {}
                <5>1. "journal" \notin todo  BY <1>1, <2>2, <4>2
                <5> QED  BY <1>1, <1>3, <2>2, <4>2, <5>1, EmptyValues
            <4> QED  BY <4>1, <4>2
        <3>3. Shown(o, s3.snap, s3.cursor) <=> o \in batch.ops \cup pend.ops
            BY <2>2, <3>1 DEF Shown
        <3>4. s3'.snap = {} /\ s3'.cursor = 0 /\ s3'.journal = {}  BY <1>2, <2>2
        <3>5. Shown(o, s3.snap, s3.cursor)' <=> o \in batch'.ops \cup pend'.ops
            BY <1>7, <1>8, <2>2, <3>4 DEF Shown
        <3> QED  BY <1>7, <3>2, <3>3, <3>5
    <2>3. CASE ~Wipes(pend) /\ call \notin {"deleteDb", "deleteColl"}
        <3>1. Deleting' <=> Deleting  BY <1>1, <2>3 DEF Deleting
        <3>2. CASE Deleting
            <4>1. todo' # {}  BY <3>1, <3>2 DEF Deleting
            <4>2. batch' = batch  BY <1>1, <4>1
            <4> QED  BY <1>7, <2>3, <3>1, <3>2, <4>2 DEF Shown
        <3>3. CASE ~Deleting
            <4>1. o \in s3'.journal \cup batch'.ops <=> o \in s3.journal \cup batch.ops
                <5>1. CASE call = "journal"
                    <6>1. batch'.ops \subseteq batch.ops  BY <1>1, EmptyValues
                    <6> QED  BY <1>2, <5>1, <6>1
                <5>2. CASE call # "journal"
                    <6>1. s3'.journal = s3.journal  BY <1>2, <2>3, <5>2
                    <6>2. CASE todo' # {}  BY <1>1, <6>1, <6>2
                    <6>3. CASE todo' = {}
                        <7>1. "journal" \notin todo  BY <1>1, <5>2, <6>3
                        <7>2. batch'.ops = {}  BY <1>1, <6>3, EmptyValues
                        <7> QED  BY <1>4, <6>1, <7>1, <7>2
                    <6> QED  BY <6>2, <6>3
                <5> QED  BY <5>1, <5>2
            <4>2. s3'.snap = s3.snap /\ s3'.cursor = s3.cursor  BY <1>2, <2>3
            <4> QED  BY <1>7, <2>3, <3>1, <3>3, <4>1, <4>2 DEF Shown
        <3> QED  BY <3>2, <3>3
    <2> QED  BY <2>1, <2>2, <2>3
<1>10. StaysShown(o)'  BY <1>1, <1>9 DEF StaysShown
<1> QED  BY <1>6, <1>10

LEMMA MemoryFail ==
    ASSUME Typed, BatchOk, StorageOk, Clean, Clean', FailFlush, NEW o \in Op,
           StaysShown(o), LandsShown(o)
    PROVE  StaysShown(o)' /\ LandsShown(o)'
<1>1. PICK call \in todo :
        /\ IsNext(call) /\ s3' \in {s3, Stored(s3, {call}, batch)}
        /\ pend' = Requeued(pend, batch) /\ batch' = Nothing /\ todo' = {}
        /\ ckpt' \in {ckpt, Idle} /\ mem' = mem
    BY FailFlushEffect
<1>2. /\ pend'.ops = batch.ops \cup pend.ops
      /\ pend'.dbDrop = (pend.dbDrop \/ batch.dbDrop)
      /\ pend'.collDrop = (pend.collDrop \/ batch.collDrop)
    BY <1>1, RequeuedFields DEF Typed, Fields
<1>3. Wipes(pend)' <=> Wipes(pend) \/ Wipes(batch)  BY <1>2 DEF Wipes
<1>4. ~Deleting' /\ batch'.ops = {}  BY <1>1, EmptyValues DEF Deleting
<1>5. ckpt'.phase # "latest"
    <2>1. ckpt.phase # "latest"  BY <1>1, NextCall
    <2> QED  BY <1>1, <2>1, EmptyValues
<1>6. LandsShown(o)'  BY <1>5 DEF LandsShown
<1>7. 0 < o.seq  BY OpNumbers
<1>8. Shown(o, s3.snap, s3.cursor)' <=> Shown(o, s3.snap, s3.cursor)
    <2>1. CASE Wipes(pend)
        <3>1. batch.ops = {}  BY <2>1, WithoutLapses
        <3> QED  BY <1>2, <1>3, <2>1, <3>1 DEF Shown
    <2>2. CASE ~Wipes(pend) /\ Wipes(batch)
        <3>1. Shown(o, s3.snap, s3.cursor)' <=> o \in batch.ops \cup pend.ops
            BY <1>2, <1>3, <2>2 DEF Shown
        <3>2. CASE Deleting  BY <2>2, <3>1, <3>2 DEF Shown
        <3>3. CASE ~Deleting
            <4>1. s3.snap = {} /\ s3.cursor = 0 /\ s3.journal \subseteq batch.ops
                BY <2>2, <3>3 DEF StorageOk
            <4> QED  BY <1>7, <2>2, <3>1, <3>3, <4>1 DEF Shown
        <3> QED  BY <3>2, <3>3
    <2>3. CASE ~Wipes(pend) /\ ~Wipes(batch)
        <3>1. ~Deleting  BY <1>1, <2>3, CallOrder DEF Deleting
        <3>2. call \notin {"deleteDb", "deleteColl"}  BY <3>1 DEF Deleting
        <3>3. LET t == Stored(s3, {call}, batch) IN
              /\ t.snap = s3.snap /\ t.cursor = s3.cursor
              /\ call = "journal" => t.journal = s3.journal \cup batch.ops
              /\ call # "journal" => t.journal = s3.journal
            BY <1>1, <3>2, OneCallContents
        <3>4. /\ s3'.snap = s3.snap /\ s3'.cursor = s3.cursor
              /\ s3'.journal = s3.journal \/ s3'.journal = s3.journal \cup batch.ops
            BY <1>1, <3>3
        <3>5. o \in s3'.journal \cup batch'.ops \cup pend'.ops
                  <=> o \in s3.journal \cup batch.ops \cup pend.ops
            BY <1>2, <1>4, <3>4
        <3> QED  BY <1>3, <1>4, <2>3, <3>1, <3>4, <3>5 DEF Shown
    <2> QED  BY <2>1, <2>2, <2>3
<1>9. StaysShown(o)'  BY <1>1, <1>8 DEF StaysShown
<1> QED  BY <1>6, <1>9

LEMMA MemoryCheckpoint ==
    ASSUME Typed, BatchOk, CursorsOk, Exact, CheckpointStep, NEW o \in Op, StaysShown(o), LandsShown(o)
    PROVE  StaysShown(o)' /\ LandsShown(o)'
<1>1. /\ UNCHANGED <<mem, pend, batch, todo>>
      /\ Wipes(pend)' = Wipes(pend) /\ Deleting' = Deleting
    BY CheckpointEffect DEF Wipes, Deleting
<1>2. ~Deleting /\ batch.ops = {}  BY CheckpointJournals, EmptyValues DEF Deleting
<1>3. /\ ckpt.phase \in {"reading", "latest"} => s3.cursor <= ckpt.cursor
      /\ ckpt.phase = "compact" => ckpt.cursor <= s3.cursor
    BY ExactIsInStep DEF CursorsOk
<1>4. o.seq \in Nat /\ s3.cursor \in Nat /\ ckpt.cursor \in Nat  BY OpNumbers
<1>5. ASSUME s3' = s3 PROVE StaysShown(o)'  BY <1>1, <1>5 DEF StaysShown, Shown
<1>6. ASSUME s3' = Latest(s3, ckpt), ckpt.phase = "latest" PROVE StaysShown(o)'
    <2>1. s3'.journal = s3.journal /\ s3'.snap = ckpt.ops /\ s3'.cursor = ckpt.cursor
        BY <1>6, LatestFields DEF Typed, Fields
    <2>2. Shown(o, s3.snap, s3.cursor)' <=> Shown(o, ckpt.ops, ckpt.cursor)
        BY <1>1, <2>1 DEF Shown
    <2> QED  BY <1>1, <1>6, <2>2 DEF StaysShown, LandsShown
<1>7. ASSUME ckpt'.phase # "latest" PROVE LandsShown(o)'  BY <1>7 DEF LandsShown
<1>8. CASE PauseFlushes
    <2>1. s3' = s3 /\ ckpt'.phase # "latest"
        BY <1>8, EmptyValues DEF PauseFlushes
    <2> QED  BY <1>5, <1>7, <2>1
<1>9. CASE ReadSegments
    <2>1. /\ s3' = s3 /\ ckpt.phase = "reading"
          /\ ckpt' = [ckpt EXCEPT !.phase = "latest", !.ops = mem.ops]
        BY <1>9 DEF ReadSegments
    <2>2. ckpt'.ops = mem.ops /\ ckpt'.cursor = ckpt.cursor
        BY <2>1 DEF Typed, Fields, Checkpoint
    <2>3. Shown(o, ckpt.ops, ckpt.cursor)' <=> Shown(o, mem.ops, ckpt.cursor)
        BY <1>1, <2>1, <2>2 DEF Shown
    <2>4. ckpt.cursor < o.seq => s3.cursor < o.seq  BY <1>3, <1>4, <2>1
    <2>5. o \in mem.ops <=> Shown(o, mem.ops, ckpt.cursor)
        BY <1>2, <2>4 DEF StaysShown, Shown
    <2>6. LandsShown(o)'  BY <1>1, <2>3, <2>5 DEF LandsShown
    <2> QED  BY <1>5, <2>1, <2>6
<1>10. CASE WriteLatest
    <2>1. /\ s3' = Latest(s3, ckpt) /\ ckpt.phase = "latest"
          /\ ckpt' = [ckpt EXCEPT !.phase = "compact"]
        BY <1>10 DEF WriteLatest
    <2>2. ckpt'.phase # "latest"  BY <2>1 DEF Typed, Fields, Checkpoint
    <2> QED  BY <1>6, <1>7, <2>1, <2>2
<1>11. CASE CompactJournals
    <2>1. /\ s3' = [s3 EXCEPT !.journal = {x \in @ : x.seq > ckpt.cursor}]
          /\ ckpt.phase = "compact" /\ ckpt' = Idle
        BY <1>11 DEF CompactJournals, Resumed
    <2>2. /\ s3'.journal = {x \in s3.journal : x.seq > ckpt.cursor}
          /\ s3'.snap = s3.snap /\ s3'.cursor = s3.cursor
        BY <2>1 DEF Typed, Fields, Storage
    <2>3. s3.cursor < o.seq => o.seq > ckpt.cursor  BY <1>3, <1>4, <2>1
    <2>4. s3.cursor < o.seq => (o \in s3'.journal <=> o \in s3.journal)
        BY <2>2, <2>3
    <2>5. Shown(o, s3.snap, s3.cursor)' <=> Shown(o, s3.snap, s3.cursor)
        BY <1>1, <2>2, <2>4 DEF Shown
    <2>6. StaysShown(o)'  BY <1>1, <2>5 DEF StaysShown
    <2> QED  BY <1>7, <2>1, <2>6, EmptyValues
<1>12. CASE FailCheckpoint
    <2>1. /\ ckpt' = Idle
          /\ s3' = s3 \/ (s3' = Latest(s3, ckpt) /\ ckpt.phase = "latest")
        BY <1>12 DEF FailCheckpoint, Resumed
    <2> QED  BY <1>5, <1>6, <1>7, <2>1, EmptyValues
<1> QED  BY <1>8, <1>9, <1>10, <1>11, <1>12 DEF CheckpointStep

LEMMA MemoryStep ==
    ASSUME IInv, StorageOk, MemoryOk, [Next]_vars
    PROVE  MemoryOk'
<1> SUFFICES ASSUME Exact', NEW o \in Op PROVE StaysShown(o)' /\ LandsShown(o)'
    BY DEF MemoryOk, StaysShown, LandsShown
<1>1. Typed /\ BatchOk /\ CursorsOk /\ Clean'  BY DEF IInv, Exact
<1>2. Clean /\ (~Restart => Exact /\ ~Crash)  BY <1>1, StaysClean DEF Exact
<1>3. CASE Restart  BY <1>1, <1>2, <1>3, MemoryRestart
<1>4. CASE ~Restart
    <2>1. Exact /\ ~Crash /\ StaysShown(o) /\ LandsShown(o)
        BY <1>2, <1>4 DEF MemoryOk, StaysShown, LandsShown
    <2>2. Insert => StaysShown(o)' /\ LandsShown(o)'  BY <1>1, <2>1, MemoryInsert
    <2>3. SchemaStep => StaysShown(o)' /\ LandsShown(o)'  BY <1>1, <2>1, MemorySchema
    <2>4. StartFlush \/ RequestCheckpoint => StaysShown(o)' /\ LandsShown(o)'
        BY <1>1, <2>1, MemoryTake
    <2>5. FlushCall => StaysShown(o)' /\ LandsShown(o)'  BY <1>1, <1>2, <2>1, MemoryFlush
    <2>6. FailFlush => StaysShown(o)' /\ LandsShown(o)'  BY <1>1, <1>2, <2>1, MemoryFail
    <2>7. CheckpointStep => StaysShown(o)' /\ LandsShown(o)'
        BY <1>1, <2>1, MemoryCheckpoint
    <2>8. LogStep \/ UNCHANGED vars => StaysShown(o)' /\ LandsShown(o)'
        <3>1. LogStep \/ UNCHANGED vars => UNCHANGED <<mem, pend, batch, todo, s3, ckpt>>
            BY LogEffect DEF vars, data
        <3> QED  BY <2>1, <3>1, MemorySame
    <2> QED
        BY <1>4, <2>1, <2>2, <2>3, <2>4, <2>5, <2>6, <2>7, <2>8, Steps
<1> QED  BY <1>3, <1>4

----------------------------------------------------------------------------
\* The invariant, and what it says of a restart.

LEMMA QueueInvInit == Init => QueueInv
<1> SUFFICES ASSUME Init PROVE QueueInv  OBVIOUS
<1>1. IInv  BY InvInit
<1>2. /\ mem.ops = {} /\ ~mem.dbGone /\ batch = Nothing /\ pend = Nothing /\ todo = {}
      /\ ckpt = Idle /\ s3.journal = {} /\ s3.snap = {}
    BY DEF Init, EmptyStorage
<1>3. StorageOk  BY <1>2, EmptyValues DEF StorageOk, Wipes
<1>4. QueuesOk  BY <1>2, EmptyValues DEF QueuesOk
<1>5. MemoryOk  BY <1>2, EmptyValues DEF MemoryOk, Shown, Wipes, Deleting
<1> QED  BY <1>1, <1>3, <1>4, <1>5 DEF QueueInv

LEMMA QueueInvStep == QueueInv /\ [Next]_vars => QueueInv'
<1> SUFFICES ASSUME QueueInv, [Next]_vars PROVE QueueInv'  OBVIOUS
<1>1. IInv /\ StorageOk /\ QueuesOk /\ MemoryOk  BY DEF QueueInv
<1>2. IInv'  BY <1>1, InvStep
<1>3. StorageOk'  BY <1>1, StorageStep DEF IInv
<1>4. QueuesOk'  BY <1>1, QueuesStep
<1>5. MemoryOk'  BY <1>1, MemoryStep
<1> QED  BY <1>2, <1>3, <1>4, <1>5 DEF QueueInv

LEMMA InvLeadsToMemory == QueueInv => QueuesLeadToMemory
<1> SUFFICES ASSUME QueueInv, Exact
             PROVE  /\ Restored(Drained).ops = mem.ops
                    /\ Restored(Drained).dbGone = mem.dbGone
                    /\ Restored(Drained).collGone => mem.dbGone \/ mem.collGone
    BY DEF QueuesLeadToMemory, Exact, Clean
<1> DEFINE written == Stored(s3, todo, batch)
           snapped == IF ckpt.phase = "latest" THEN Latest(written, ckpt) ELSE written
           final == Stored(snapped, CallsOf(pend), pend)
<1>1. Typed /\ BatchOk /\ StorageOk /\ InStep /\ Clean
    BY ExactIsInStep DEF QueueInv, IInv, Exact
<1>2. /\ s3 \in Storage /\ pend \in Queue /\ batch \in Queue /\ todo \in SUBSET CallNames
      /\ ckpt \in Checkpoint /\ CallsOf(pend) \in SUBSET CallNames /\ mem \in Memory
    BY <1>1, CallsOfMembers DEF Typed, Fields
<1>3. /\ mem.dbGone =>
             /\ ~pend.db
             /\ pend.dbDrop \/ (~batch.db /\ ("tombDb" \in todo \/ s3.dbTomb))
      /\ \A o \in Op : o \in mem.ops <=> Shown(o, s3.snap, s3.cursor)
      /\ ckpt.phase = "latest" =>
             \A o \in Op : o \in mem.ops <=> Shown(o, ckpt.ops, ckpt.cursor)
    BY DEF QueueInv, QueuesOk, MemoryOk
<1>4. /\ mem.dbGone \/ mem.collGone => mem.ops = {}
      /\ ~mem.dbGone =>
             \/ pend.db
             \/ /\ ~pend.dbDrop
                /\ "untombDb" \in todo \/ ("tombDb" \notin todo /\ ~s3.dbTomb)
      /\ ~mem.collGone =>
             \/ pend.meta
             \/ /\ ~pend.collDrop
                /\ "untombColl" \in todo \/ ("tombColl" \notin todo /\ ~s3.collTomb)
    BY <1>1 DEF QueueInv, IInv, TombsOk
<1>5. /\ "untombDb" \in todo => batch.db
      /\ "journal" \in todo => batch.ops # {}
      /\ Deleting => ckpt.phase # "latest"
      /\ Deleting /\ batch.ops # {} => "journal" \in todo
      /\ "journal" \notin todo => batch.ops \subseteq s3.journal
    <2>1. todo \subseteq CallsOf(batch) \cup {"truncate"}  BY <1>1 DEF BatchOk
    <2>2. /\ "untombDb" \in todo => batch.db
          /\ "journal" \in todo => batch.ops # {}
        BY <1>2, <2>1, CallsOfMembers
    <2>3. Deleting => ckpt.phase # "latest"  BY <1>1 DEF BatchOk, Deleting
    <2>4. Deleting /\ "journal" \in CallsOf(batch) => "journal" \in todo
        BY <1>1, StageFacts DEF BatchOk, Deleting
    <2>5. batch.ops # {} => "journal" \in CallsOf(batch)  BY <1>2, CallsOfMembers
    <2>6. "journal" \notin todo => batch.ops \subseteq s3.journal
        BY <1>1 DEF StorageOk
    <2> QED  BY <2>2, <2>3, <2>4, <2>5, <2>6
\* After the calls of the batch.
<1>6. /\ written \in Storage
      /\ written.dbTomb = ("untombDb" \notin todo /\ ("tombDb" \in todo \/ s3.dbTomb))
      /\ written.collTomb = ("untombColl" \notin todo
             /\ ("tombColl" \in todo \/ (s3.collTomb /\ "deleteDb" \notin todo)))
      /\ Deleting => written.snap = {} /\ written.cursor = 0
      /\ ~Deleting => written.snap = s3.snap /\ written.cursor = s3.cursor
    <2>1. /\ written \in Storage
          /\ written.dbTomb = ("untombDb" \notin todo /\ ("tombDb" \in todo \/ s3.dbTomb))
          /\ written.collTomb = ("untombColl" \notin todo
                 /\ ("tombColl" \in todo \/ (s3.collTomb /\ "deleteDb" \notin todo)))
        BY <1>2, StoredFields
    <2>2. /\ "deleteDb" \in todo \/ "deleteColl" \in todo =>
                 written.snap = {} /\ written.cursor = 0
          /\ ~("deleteDb" \in todo \/ "deleteColl" \in todo) =>
                 written.snap = s3.snap /\ written.cursor = s3.cursor
        BY <1>2, StoredFields
    <2> HIDE DEF written
    <2> QED  BY <2>1, <2>2 DEF Deleting
<1>7. /\ Deleting => written.journal = batch.ops
      /\ ~Deleting => written.journal = s3.journal \cup batch.ops
    <2>1. \A o : o \in written.journal <=> \/ ~Deleting /\ o \in s3.journal
                                           \/ "journal" \in todo /\ o \in batch.ops
        BY <1>2, StoredContents DEF Deleting
    <2> HIDE DEF written
    <2>2. Deleting => \A o : o \in written.journal <=> o \in batch.ops  BY <1>5, <2>1
    <2>3. ~Deleting => \A o : o \in written.journal <=> o \in s3.journal \cup batch.ops
        BY <1>5, <2>1
    <2> QED  BY <2>2, <2>3
<1> HIDE DEF written
\* After the checkpoint that is being written.
<1>8. /\ snapped \in Storage /\ snapped.journal = written.journal
      /\ snapped.dbTomb = written.dbTomb /\ snapped.collTomb = written.collTomb
      /\ ckpt.phase = "latest" => snapped.snap = ckpt.ops /\ snapped.cursor = ckpt.cursor
      /\ ckpt.phase # "latest" => snapped = written
    BY <1>2, <1>6, LatestFields
<1> HIDE DEF snapped
\* After the flush of what is pending.
<1>9. /\ "deleteDb" \in CallsOf(pend) \/ "deleteColl" \in CallsOf(pend) <=> Wipes(pend)
      /\ "deleteDb" \in CallsOf(pend) <=> pend.dbDrop
      /\ "tombDb" \in CallsOf(pend) <=> pend.dbDrop
      /\ "tombColl" \in CallsOf(pend) <=> pend.collDrop
      /\ "untombDb" \in CallsOf(pend) <=> pend.db
      /\ "untombColl" \in CallsOf(pend) <=> pend.meta
      /\ "journal" \in CallsOf(pend) <=> pend.ops # {}
    BY <1>2, CallsOfMembers DEF Wipes
<1>10. /\ final \in Storage
       /\ final.dbTomb = (~pend.db /\ (pend.dbDrop \/ snapped.dbTomb))
       /\ final.collTomb = (~pend.meta
              /\ (pend.collDrop \/ (snapped.collTomb /\ ~pend.dbDrop)))
       /\ Wipes(pend) => final.snap = {} /\ final.cursor = 0
       /\ ~Wipes(pend) => final.snap = snapped.snap /\ final.cursor = snapped.cursor
    <2>1. PICK calls \in SUBSET CallNames : calls = CallsOf(pend)  BY <1>2
    <2>2. PICK s \in Storage : s = snapped  BY <1>8
    <2>3. final = Stored(s, calls, pend)  BY <2>1, <2>2
    <2> HIDE DEF final
    <2>4. LET f == Stored(s, calls, pend) IN
          /\ f \in Storage
          /\ f.dbTomb = ("untombDb" \notin calls /\ ("tombDb" \in calls \/ s.dbTomb))
          /\ f.collTomb = ("untombColl" \notin calls
                 /\ ("tombColl" \in calls \/ (s.collTomb /\ "deleteDb" \notin calls)))
        BY <1>2, StoredFields
    <2>5. /\ "deleteDb" \in calls \/ "deleteColl" \in calls =>
                 final.snap = {} /\ final.cursor = 0
          /\ ~("deleteDb" \in calls \/ "deleteColl" \in calls) =>
                 final.snap = s.snap /\ final.cursor = s.cursor
        BY <1>2, <2>3, StoredFields
    <2> QED  BY <1>9, <2>1, <2>2, <2>3, <2>4, <2>5
<1>11. \A o : o \in final.journal <=> \/ ~Wipes(pend) /\ o \in snapped.journal
                                      \/ o \in pend.ops
    <2>1. \A o : o \in final.journal <=>
              \/ ~("deleteDb" \in CallsOf(pend) \/ "deleteColl" \in CallsOf(pend))
                     /\ o \in snapped.journal
              \/ "journal" \in CallsOf(pend) /\ o \in pend.ops
        BY <1>2, <1>8, StoredContents
    <2> HIDE DEF final
    <2> QED  BY <1>9, <2>1
<1>12. Drained = final  BY DEF Drained, final, snapped, written
<1> HIDE DEF final
<1>13. final.dbTomb = mem.dbGone
    <2>1. mem.dbGone \in BOOLEAN /\ s3.dbTomb \in BOOLEAN  BY <1>2 DEF Memory, Storage
    <2>2. mem.dbGone => final.dbTomb  BY <1>3, <1>5, <1>6, <1>8, <1>10
    <2>3. ~mem.dbGone => ~final.dbTomb  BY <1>4, <1>6, <1>8, <1>10
    <2>4. final.dbTomb \in BOOLEAN  BY <1>10 DEF Storage
    <2> QED  BY <2>1, <2>2, <2>3, <2>4
<1>14. ~mem.collGone => ~final.collTomb  BY <1>4, <1>6, <1>8, <1>10
<1>15. /\ Restored(final).dbGone = final.dbTomb /\ Restored(final).collGone = final.collTomb
       /\ Restored(final).ops = IF final.dbTomb \/ final.collTomb THEN {}
              ELSE final.snap \cup {o \in final.journal : o.seq > final.cursor}
    BY DEF Restored
<1>16. ASSUME NEW o \in Op
       PROVE  o \in mem.ops <=> o \in final.snap \/ (o \in final.journal /\ o.seq > final.cursor)
    <2>1. o.seq \in Nat /\ 0 < o.seq /\ s3.cursor \in Nat /\ ckpt.cursor \in Nat
        BY <1>1, OpNumbers
    <2>2. CASE Wipes(pend)
        <3>1. o \in mem.ops <=> o \in pend.ops  BY <1>3, <2>2 DEF Shown
        <3>2. final.snap = {} /\ final.cursor = 0  BY <1>10, <2>2
        <3>3. o \in final.journal <=> o \in pend.ops  BY <1>11, <2>2
        <3> QED  BY <2>1, <3>1, <3>2, <3>3
    <2>3. CASE ~Wipes(pend) /\ Deleting
        <3>1. o \in mem.ops <=> o \in batch.ops \cup pend.ops
            BY <1>3, <2>3 DEF Shown
        <3>2. snapped = written  BY <1>5, <1>8, <2>3
        <3>3. final.snap = {} /\ final.cursor = 0  BY <1>6, <1>10, <2>3, <3>2
        <3>4. o \in final.journal <=> o \in batch.ops \cup pend.ops
            BY <1>7, <1>11, <2>3, <3>2
        <3> QED  BY <2>1, <3>1, <3>3, <3>4
    <2>4. CASE ~Wipes(pend) /\ ~Deleting
        <3>1. o \in final.journal <=> o \in s3.journal \cup batch.ops \cup pend.ops
            BY <1>7, <1>8, <1>11, <2>4
        <3>2. CASE ckpt.phase = "latest"
            <4>1. final.snap = ckpt.ops /\ final.cursor = ckpt.cursor
                BY <1>8, <1>10, <2>4, <3>2
            <4>2. o \in mem.ops <=> o \in ckpt.ops
                      \/ (ckpt.cursor < o.seq /\ o \in s3.journal \cup batch.ops \cup pend.ops)
                BY <1>3, <2>4, <3>2 DEF Shown
            <4> QED  BY <2>1, <3>1, <4>1, <4>2
        <3>3. CASE ckpt.phase # "latest"
            <4>1. final.snap = s3.snap /\ final.cursor = s3.cursor
                BY <1>6, <1>8, <1>10, <2>4, <3>3
            <4>2. o \in mem.ops <=> o \in s3.snap
                      \/ (s3.cursor < o.seq /\ o \in s3.journal \cup batch.ops \cup pend.ops)
                BY <1>3, <2>4 DEF Shown
            <4> QED  BY <2>1, <3>1, <4>1, <4>2
        <3> QED  BY <3>2, <3>3
    <2> QED  BY <2>2, <2>3, <2>4
<1>17. Restored(final).ops = mem.ops
    <2>1. CASE final.dbTomb \/ final.collTomb  BY <1>4, <1>13, <1>14, <1>15, <2>1
    <2>2. CASE ~final.dbTomb /\ ~final.collTomb
        <3>1. /\ final.snap \subseteq Op /\ final.journal \subseteq Op /\ mem.ops \subseteq Op
            BY <1>2, <1>10 DEF Storage, Memory
        <3>2. \A o : o \in mem.ops <=>
                  o \in final.snap \cup {x \in final.journal : x.seq > final.cursor}
            BY <1>16, <3>1
        <3> QED  BY <1>15, <2>2, <3>2
    <2> QED  BY <2>1, <2>2
<1> QED  BY <1>12, <1>13, <1>14, <1>15, <1>17

(***************************************************************************)
(* The queues lead to memory (_queueDatabase, _queueDatabaseDrop,           *)
(* _queueMeta, _queueCollectionDrop, _flushOnce): once they are written, a  *)
(* restart shows exactly what memory shows, for any number of operations,   *)
(* schema changes, failing calls, checkpoints and restarts, the named       *)
(* lapses excepted.                                                         *)
(***************************************************************************)
THEOREM QueuesLead == Spec => []QueuesLeadToMemory
<1>1. Init => QueueInv  BY QueueInvInit
<1>2. QueueInv /\ [Next]_vars => QueueInv'  BY QueueInvStep
<1>3. QueueInv => QueuesLeadToMemory  BY InvLeadsToMemory
<1> QED  BY <1>1, <1>2, <1>3, PTL DEF Spec

============================================================================
