--------------------------- MODULE RowMetaProofs ---------------------------
(***************************************************************************)
(* Proofs about RowMeta, for every bound on the clocks and every set of     *)
(* writers: the type invariant, TombstoneCoversPut, and that the handlers   *)
(* on {ts, deleted} implement the last-writer-wins register.                *)
(*                                                                          *)
(* The inductive invariant ties the two timestamps to the operations given: *)
(* each is the timestamp of a given operation of its kind, and no given     *)
(* operation is newer than the one the entry shows.                         *)
(***************************************************************************)
EXTENDS RowMeta, TLAPS

\* gt of clock.js is a strict total order on timestamps.
LEMMA GtIrreflexive ==
    ASSUME NEW a \in Timestamp
    PROVE  ~Gt(a, a)
BY DEF Gt, Timestamp

LEMMA GtTransitive ==
    ASSUME NEW a \in Timestamp, NEW b \in Timestamp, NEW c \in Timestamp,
           Gt(a, b), Gt(b, c)
    PROVE  Gt(a, c)
BY DEF Gt, Timestamp

\* What is not newer is at most as new: the early return of the handlers.
LEMMA NotGt ==
    ASSUME NEW a \in Timestamp, NEW b \in Timestamp
    PROVE  ~Gt(a, b) <=> Geq(b, a)
BY DEF Gt, Geq, Timestamp

LEMMA GeqTransitive ==
    ASSUME NEW a \in Timestamp, NEW b \in Timestamp, NEW c \in Timestamp,
           Geq(a, b), Geq(b, c)
    PROVE  Geq(a, c)
BY DEF Gt, Geq, Timestamp

LEMMA NoTsOldest ==
    ASSUME NEW a \in Timestamp, a # NoTs
    PROVE  NoTs \in Timestamp /\ Gt(a, NoTs)
<1>1. NoTs \in Timestamp  BY DEF NoTs, Timestamp
<1>2. a.c # 0 \/ a.n # 0  BY DEF NoTs, Timestamp
<1>3. NoTs.c = 0 /\ NoTs.n = 0  BY DEF NoTs
<1> QED  BY <1>1, <1>2, <1>3 DEF Gt, Timestamp

----------------------------------------------------------------------------

Shown(m) == IF m.deleted # NoTs THEN m.deleted ELSE m.ts

PutIsGiven(m) == m.ts # NoTs => m.ts \in given /\ kindOf[m.ts] = "putObj"

DeleteIsGiven(m) ==
    m.deleted # NoTs => m.deleted \in given /\ kindOf[m.deleted] = "delObj"

NothingNewer(m) == \A s \in given : Geq(Shown(m), s)

Covers(m) == m.deleted # NoTs => Gt(m.deleted, m.ts)

MetaOK(m) ==
    /\ PutIsGiven(m)
    /\ DeleteIsGiven(m)
    /\ NothingNewer(m)
    /\ Covers(m)

IInv == TypeOK /\ MetaOK(meta)

\* Every stamp is a timestamp, and none of them is the null timestamp.
LEMMA StampsAreTimestamps ==
    /\ Stamps \subseteq Timestamp /\ NoTs \in Timestamp /\ NoTs \notin Stamps
    /\ \A s \in Stamps : Gt(s, NoTs)
<1>0. MaxCounter \in Nat /\ Writers \subseteq Nat  BY RowMetaAssumption
<1>1. Stamps \subseteq Timestamp
    <2> SUFFICES ASSUME NEW s \in Stamps PROVE s \in Timestamp
        OBVIOUS
    <2>1. s.c \in 1..MaxCounter /\ s.n \in Writers  BY DEF Stamps
    <2>2. s.n \in Nat  BY <1>0, <2>1
    <2>3. \A k \in 1..MaxCounter : k \in Nat  BY <1>0
    <2>4. s.c \in Nat  BY <2>1, <2>3
    <2>5. s = [c |-> s.c, n |-> s.n]  BY DEF Stamps
    <2> QED  BY <2>2, <2>4, <2>5 DEF Timestamp
<1>2. NoTs \in Timestamp  BY DEF NoTs, Timestamp
<1>3. \A s \in Stamps : s.c # 0  BY DEF Stamps
<1>4. NoTs \notin Stamps  BY <1>3 DEF NoTs
<1>5. \A s \in Stamps : Gt(s, NoTs)  BY <1>1, <1>4, NoTsOldest
<1> QED  BY <1>1, <1>2, <1>4, <1>5

LEMMA InitIInv == Init => IInv
<1> SUFFICES ASSUME Init PROVE IInv
    OBVIOUS
<1>1. TypeOK  BY DEF Init, TypeOK, Meta
<1>2. MetaOK(meta)
    BY DEF Init, MetaOK, PutIsGiven, DeleteIsGiven, NothingNewer, Covers
<1> QED  BY <1>1, <1>2 DEF IInv

\* What _putObject leaves, once the put has been given.
LEMMA PutKeepsIInv ==
    ASSUME IInv, NEW ts \in Stamps, Put(ts)
    PROVE  IInv'
<1> USE StampsAreTimestamps
<1>1. /\ kindOf' = kindOf /\ given' = given \cup {ts} /\ kindOf[ts] = "putObj"
      /\ meta' = PutObject(meta, ts)
    BY DEF Put
<1>2. meta.ts \in Timestamp /\ meta.deleted \in Timestamp /\ ts \in Timestamp
    BY DEF IInv, TypeOK, Meta
<1>3. given \subseteq Timestamp  BY DEF IInv, TypeOK
<1>4. CASE \/ meta.deleted # NoTs /\ ~Gt(ts, meta.deleted)
           \/ meta.ts # NoTs /\ ~Gt(ts, meta.ts)
    <2>1. meta' = meta  BY <1>1, <1>4 DEF PutObject
    <2>2. Geq(Shown(meta), ts)
        BY <1>2, <1>4, NotGt, GeqTransitive DEF Shown, IInv, MetaOK, Covers, Geq
    <2>3. TypeOK'  BY <1>1, <2>1 DEF IInv, TypeOK
    <2>4. MetaOK(meta)'
        BY <1>1, <2>1, <2>2
        DEF IInv, MetaOK, PutIsGiven, DeleteIsGiven, NothingNewer, Covers, Shown
    <2> QED  BY <2>3, <2>4 DEF IInv
<1>5. CASE ~(\/ meta.deleted # NoTs /\ ~Gt(ts, meta.deleted)
             \/ meta.ts # NoTs /\ ~Gt(ts, meta.ts))
    <2>1. meta' = [ts |-> ts, deleted |-> NoTs]  BY <1>1, <1>5 DEF PutObject
    <2>2. Gt(ts, Shown(meta))  BY <1>5 DEF Shown
    <2>3. \A s \in given : Geq(ts, s)
        BY <1>2, <1>3, <2>2, GeqTransitive
        DEF IInv, MetaOK, NothingNewer, Geq, Shown
    <2>4. TypeOK'  BY <1>1, <2>1 DEF IInv, TypeOK, Meta
    <2>5. MetaOK(meta)'
        BY <1>1, <2>1, <2>3
        DEF MetaOK, PutIsGiven, DeleteIsGiven, NothingNewer, Covers, Shown, Geq
    <2> QED  BY <2>4, <2>5 DEF IInv
<1> QED  BY <1>4, <1>5

\* What _deleteObject leaves.
LEMMA DeleteKeepsIInv ==
    ASSUME IInv, NEW ts \in Stamps, Delete(ts)
    PROVE  IInv'
<1> USE StampsAreTimestamps
<1>1. /\ kindOf' = kindOf /\ given' = given \cup {ts} /\ kindOf[ts] = "delObj"
      /\ meta' = DeleteObject(meta, ts)
    BY DEF Delete
<1>2. meta.ts \in Timestamp /\ meta.deleted \in Timestamp /\ ts \in Timestamp
    BY DEF IInv, TypeOK, Meta
<1>3. given \subseteq Timestamp  BY DEF IInv, TypeOK
<1>4. CASE Shown(meta) # NoTs /\ ~Gt(ts, Shown(meta))
    <2>1. meta' = meta  BY <1>1, <1>4 DEF DeleteObject, Shown
    <2>2. Geq(Shown(meta), ts)  BY <1>2, <1>4, NotGt DEF Shown
    <2>3. TypeOK'  BY <1>1, <2>1 DEF IInv, TypeOK
    <2>4. MetaOK(meta)'
        BY <1>1, <2>1, <2>2
        DEF IInv, MetaOK, PutIsGiven, DeleteIsGiven, NothingNewer, Covers, Shown
    <2> QED  BY <2>3, <2>4 DEF IInv
<1>5. CASE ~(Shown(meta) # NoTs /\ ~Gt(ts, Shown(meta)))
    <2>1. meta' = [meta EXCEPT !.deleted = ts]
        BY <1>1, <1>5 DEF DeleteObject, Shown
    <2>2. meta'.ts = meta.ts /\ meta'.deleted = ts
        BY <2>1 DEF IInv, TypeOK, Meta
    <2>3. Gt(ts, Shown(meta))  BY <1>5
    <2>4. \A s \in given : Geq(ts, s)
        BY <1>2, <1>3, <2>3, GeqTransitive
        DEF IInv, MetaOK, NothingNewer, Geq, Shown
    <2>5. Gt(ts, meta.ts)
        BY <1>2, <2>3, GtTransitive DEF IInv, MetaOK, Covers, Shown
    <2>6. TypeOK'  BY <1>1, <2>1 DEF IInv, TypeOK, Meta
    <2>7. MetaOK(meta)'
        BY <1>1, <2>2, <2>4, <2>5
        DEF IInv, MetaOK, PutIsGiven, DeleteIsGiven, NothingNewer, Covers, Shown, Geq
    <2> QED  BY <2>6, <2>7 DEF IInv
<1> QED  BY <1>4, <1>5

\* What _applySnapshotObject leaves.  The tombstone of a row arrives together
\* with the older put it covers.
LEMMA SnapshotKeepsIInv ==
    ASSUME IInv, Snapshot
    PROVE  IInv'
<1> USE StampsAreTimestamps
<1>1. PICK row \in SnapshotRows :
          /\ row.deleted # NoTs => Gt(row.deleted, row.ts)
          /\ meta' = ApplySnapshotObject(meta, row)
          /\ given' = given \cup ({row.ts, row.deleted} \ {NoTs})
          /\ kindOf' = kindOf
    BY DEF Snapshot
<1>2. /\ row.ts \in Stamps \cup {NoTs} /\ row.deleted \in Stamps \cup {NoTs}
      /\ row.ts # NoTs => kindOf[row.ts] = "putObj"
      /\ row.deleted # NoTs => kindOf[row.deleted] = "delObj"
      /\ row.ts # NoTs \/ row.deleted # NoTs
    BY DEF SnapshotRows, IInv, TypeOK, Kinds
<1>3. /\ meta.ts \in Timestamp /\ meta.deleted \in Timestamp
      /\ row.ts \in Timestamp /\ row.deleted \in Timestamp
    BY <1>2 DEF IInv, TypeOK, Meta
<1>4. given \subseteq Timestamp  BY DEF IInv, TypeOK
<1>5. CASE row.deleted # NoTs
    <2>1. meta' = ApplySnapshotTombstone(meta, row)
        BY <1>1, <1>5 DEF ApplySnapshotObject
    <2>2. Gt(row.deleted, row.ts)  BY <1>1, <1>5
    <2>3. CASE Shown(meta) # NoTs /\ ~Gt(row.deleted, Shown(meta))
        <3>1. meta' = meta  BY <2>1, <2>3 DEF ApplySnapshotTombstone, Shown
        <3>2. Geq(Shown(meta), row.deleted)  BY <1>3, <2>3, NotGt DEF Shown
        <3>3. Geq(Shown(meta), row.ts)
            BY <1>3, <2>2, <3>2, GeqTransitive DEF Geq, Shown
        <3>4. TypeOK'  BY <1>1, <1>2, <3>1 DEF IInv, TypeOK
        <3>5. MetaOK(meta)'
            BY <1>1, <3>1, <3>2, <3>3
            DEF IInv, MetaOK, PutIsGiven, DeleteIsGiven, NothingNewer, Covers, Shown
        <3> QED  BY <3>4, <3>5 DEF IInv
    <2>4. CASE ~(Shown(meta) # NoTs /\ ~Gt(row.deleted, Shown(meta)))
        <3>1. /\ meta' = [ts |-> IF row.ts # NoTs THEN row.ts ELSE meta.ts,
                          deleted |-> row.deleted]
              /\ Gt(row.deleted, Shown(meta))
            BY <1>2, <1>5, <2>1, <2>4 DEF ApplySnapshotTombstone, Shown
        <3>2. \A s \in given : Geq(row.deleted, s)
            BY <1>3, <1>4, <3>1, GeqTransitive
            DEF IInv, MetaOK, NothingNewer, Geq, Shown
        <3>3. Gt(row.deleted, meta.ts)
            BY <1>3, <3>1, GtTransitive DEF IInv, MetaOK, Covers, Shown
        <3>4. TypeOK'  BY <1>1, <1>2, <3>1 DEF IInv, TypeOK, Meta
        <3>5. PutIsGiven(meta)' /\ DeleteIsGiven(meta)'
            BY <1>1, <1>2, <1>5, <3>1
            DEF IInv, MetaOK, PutIsGiven, DeleteIsGiven
        <3>6. NothingNewer(meta)'
            BY <1>1, <1>5, <2>2, <3>1, <3>2 DEF NothingNewer, Shown, Geq
        <3>7. Covers(meta)'
            BY <1>5, <2>2, <3>1, <3>3 DEF Covers
        <3> QED  BY <3>4, <3>5, <3>6, <3>7 DEF IInv, MetaOK
    <2> QED  BY <2>3, <2>4
<1>6. CASE row.deleted = NoTs
    <2>1. meta' = ApplySnapshotLive(meta, row) /\ row.ts # NoTs
        BY <1>1, <1>2, <1>6 DEF ApplySnapshotObject
    <2>2. CASE \/ meta.deleted # NoTs /\ ~Gt(row.ts, meta.deleted)
               \/ meta.ts # NoTs /\ ~Gt(row.ts, meta.ts)
        <3>1. meta' = meta  BY <2>1, <2>2 DEF ApplySnapshotLive
        <3>2. Geq(Shown(meta), row.ts)
            BY <1>3, <2>2, NotGt, GeqTransitive DEF Shown, IInv, MetaOK, Covers, Geq
        <3>3. TypeOK'  BY <1>1, <1>2, <3>1 DEF IInv, TypeOK
        <3>4. MetaOK(meta)'
            BY <1>1, <1>6, <3>1, <3>2
            DEF IInv, MetaOK, PutIsGiven, DeleteIsGiven, NothingNewer, Covers, Shown
        <3> QED  BY <3>3, <3>4 DEF IInv
    <2>3. CASE ~(\/ meta.deleted # NoTs /\ ~Gt(row.ts, meta.deleted)
                 \/ meta.ts # NoTs /\ ~Gt(row.ts, meta.ts))
        <3>1. meta' = [ts |-> row.ts, deleted |-> NoTs]
            BY <2>1, <2>3 DEF ApplySnapshotLive
        <3>2. Gt(row.ts, Shown(meta))  BY <1>2, <2>1, <2>3 DEF Shown
        <3>3. \A s \in given : Geq(row.ts, s)
            BY <1>3, <1>4, <3>2, GeqTransitive
            DEF IInv, MetaOK, NothingNewer, Geq, Shown
        <3>4. TypeOK'  BY <1>1, <1>2, <3>1 DEF IInv, TypeOK, Meta
        <3>5. MetaOK(meta)'
            BY <1>1, <1>2, <1>6, <2>1, <3>1, <3>3
            DEF MetaOK, PutIsGiven, DeleteIsGiven, NothingNewer, Covers, Shown, Geq
        <3> QED  BY <3>4, <3>5 DEF IInv
    <2> QED  BY <2>2, <2>3
<1> QED  BY <1>5, <1>6

LEMMA NextIInv == IInv /\ [Next]_vars => IInv'
<1> SUFFICES ASSUME IInv, [Next]_vars PROVE IInv'
    OBVIOUS
<1>1. CASE \E ts \in Stamps : Put(ts)  BY <1>1, PutKeepsIInv
<1>2. CASE \E ts \in Stamps : Delete(ts)  BY <1>2, DeleteKeepsIInv
<1>3. CASE Snapshot  BY <1>3, SnapshotKeepsIInv
<1>4. CASE UNCHANGED vars
    BY <1>4
    DEF vars, IInv, TypeOK, MetaOK, PutIsGiven, DeleteIsGiven, NothingNewer, Covers,
        Shown
<1> QED  BY <1>1, <1>2, <1>3, <1>4 DEF Next

LEMMA Invariance == Spec => []IInv
BY InitIInv, NextIInv, PTL DEF Spec

(***************************************************************************)
(* The handlers keep ts and deleted timestamps that were issued, or null.   *)
(***************************************************************************)
THEOREM TypeCorrect == Spec => []TypeOK
<1>1. IInv => TypeOK  BY DEF IInv
<1> QED  BY Invariance, <1>1, PTL

(***************************************************************************)
(* A tombstone is newer than the put it covers: no path through             *)
(* _putObject, _deleteObject and _applySnapshotObject leaves an entry whose *)
(* deleted is older than its ts.                                            *)
(***************************************************************************)
THEOREM TombstoneCoversPutHolds == Spec => []TombstoneCoversPut
<1>1. IInv => TombstoneCoversPut
    BY DEF IInv, MetaOK, Covers, TombstoneCoversPut
<1> QED  BY Invariance, <1>1, PTL

----------------------------------------------------------------------------
Given == {[ts |-> s, kind |-> kindOf[s]] : s \in given}

\* The entry shows the newest operation given.
LEMMA EntryShowsNewest == IInv => Newest(Given, View(meta))
<1> SUFFICES ASSUME IInv PROVE Newest(Given, View(meta))
    OBVIOUS
<1> USE StampsAreTimestamps
<1>1. given \subseteq Stamps /\ meta.ts \in Timestamp /\ meta.deleted \in Timestamp
    BY DEF IInv, TypeOK, Meta
<1>2. View(meta).ver = Shown(meta)  BY DEF View, Shown
<1>3. CASE Shown(meta) = NoTs
    <2>1. meta.deleted = NoTs /\ meta.ts = NoTs  BY <1>3 DEF Shown
    <2>2. given = {}
        <3>1. \A s \in given : Geq(NoTs, s)
            BY <1>3 DEF IInv, MetaOK, NothingNewer
        <3>2. \A s \in given : ~Geq(NoTs, s)
            BY <1>1, GtTransitive, GtIrreflexive DEF Geq
        <3> QED  BY <3>1, <3>2
    <2>3. Given = {}  BY <2>2 DEF Given
    <2>4. View(meta) = NoRow  BY <2>1 DEF View, NoRow
    <2> QED  BY <2>3, <2>4 DEF Newest
<1>4. CASE Shown(meta) # NoTs
    <2> DEFINE top == [ts |-> Shown(meta), kind |-> kindOf[Shown(meta)]]
    <2>1. Shown(meta) \in given
        BY <1>4 DEF IInv, MetaOK, PutIsGiven, DeleteIsGiven, Shown
    <2>2. top \in Given  BY <2>1 DEF Given
    <2>3. \A o \in Given : Geq(top.ts, o.ts)
        BY DEF Given, IInv, MetaOK, NothingNewer
    <2>4. View(meta).live = (top.kind = "putObj")
        BY <1>4 DEF View, IInv, MetaOK, PutIsGiven, DeleteIsGiven, Shown
    <2>5. View(meta) = [ver |-> top.ts, live |-> top.kind = "putObj"]
        BY <1>2, <2>4 DEF View
    <2> QED  BY <2>2, <2>3, <2>5 DEF Newest
<1> QED  BY <1>3, <1>4

(***************************************************************************)
(* The put, delete and snapshot handlers implement the last-writer-wins     *)
(* register, whatever the order in which operations arrive and however      *)
(* often (_putObject, _deleteObject, _applySnapshotObject).                 *)
(***************************************************************************)
THEOREM RegisterRefinement == Spec => ImplementsRegister
<1>1. Init => Register!Init
    <2> SUFFICES ASSUME Init PROVE Register!Init
        OBVIOUS
    <2>1. given = {} /\ meta.ts = NoTs /\ meta.deleted = NoTs  BY DEF Init
    <2>2. View(meta) = [ver |-> NoTs, live |-> FALSE]  BY <2>1 DEF View
    <2>3. View(meta) = Register!NoRow
        BY <2>2 DEF NoTs, Register!NoRow, Register!NoTs
    <2> QED  BY <2>1, <2>3 DEF Register!Init
<1>2. IInv' => Newest(Given, View(meta))'  BY EntryShowsNewest, PTL
<1>3. IInv' /\ [Next]_vars => [Register!Receive]_(Register!vars)
    <2> SUFFICES ASSUME IInv', [Next]_vars
                 PROVE  Register!Receive
        OBVIOUS
    <2>1. Newest(Given', View(meta)')  BY <1>2
    <2>2. Register!Newest(Given', View(meta)')
        BY <2>1
        DEF Newest, Register!Newest, NoRow, Register!NoRow, NoTs, Register!NoTs,
            Geq, Register!Geq, Gt, Register!Gt
    <2>3. given \subseteq given' /\ kindOf' = kindOf
        BY DEF Next, Put, Delete, Snapshot, vars
    <2>4. Given \subseteq Given'  BY <2>3 DEF Given
    <2> QED  BY <2>2, <2>4 DEF Register!Receive, Given
<1> QED  BY <1>1, <1>3, Invariance, PTL DEF Spec, ImplementsRegister, Register!Spec

============================================================================
