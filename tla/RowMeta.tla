------------------------------ MODULE RowMeta ------------------------------
(***************************************************************************)
(* One entry of Collection.meta as src/store.js keeps it: the timestamp ts  *)
(* of the last accepted put, and the timestamp deleted of a tombstone or    *)
(* null.  The three handlers that change it are _putObject, _deleteObject   *)
(* and _applySnapshotObject.                                                *)
(*                                                                          *)
(* An operation is a timestamp and a kind; nextTs never issues a timestamp  *)
(* twice, so kindOf, fixed at the start, says what the operation of each    *)
(* timestamp is.  Operations arrive in any order, any number of times, one  *)
(* by one or folded into the row of another replica's snapshot.             *)
(***************************************************************************)
EXTENDS Lww

CONSTANTS MaxCounter,        \* bound: largest clock counter
          Writers            \* node ids that write the object

ASSUME RowMetaAssumption == MaxCounter \in Nat /\ Writers \subseteq Nat \ {0}

VARIABLES kindOf,            \* kind of the operation of each timestamp
          meta,              \* {ts, deleted}
          given              \* history: timestamps whose operations arrived

vars == <<kindOf, meta, given>>

Stamps == [c : 1..MaxCounter, n : Writers]

Meta == [ts : Stamps \cup {NoTs}, deleted : Stamps \cup {NoTs}]

TypeOK ==
    /\ kindOf \in [Stamps -> Kinds]
    /\ meta \in Meta
    /\ given \subseteq Stamps

----------------------------------------------------------------------------
\* The handlers: the meta entry after each, the same entry when it rejects.

\* Mutants: a put that ignores the tombstone, one that keeps it.
PutObjectOverTombstone(m, ts) ==
    IF m.ts # NoTs /\ ~Gt(ts, m.ts) THEN m ELSE [ts |-> ts, deleted |-> NoTs]
PutObjectUnderTombstone(m, ts) ==
    IF m.ts # NoTs /\ ~Gt(ts, m.ts) THEN m ELSE [m EXCEPT !.ts = ts]

PutObject(m, ts) ==
    IF \/ m.deleted # NoTs /\ ~Gt(ts, m.deleted)
       \/ m.ts # NoTs /\ ~Gt(ts, m.ts)
    THEN m
    ELSE [ts |-> ts, deleted |-> NoTs]

DeleteObject(m, ts) ==
    LET last == IF m.deleted # NoTs THEN m.deleted ELSE m.ts IN
    IF last # NoTs /\ ~Gt(ts, last) THEN m ELSE [m EXCEPT !.deleted = ts]

\* Mutant: the node id of the tombstone is lost.
ApplySnapshotNameless(m, row) ==
    [ts |-> m.ts, deleted |-> [row.deleted EXCEPT !.n = 0]]

ApplySnapshotTombstone(m, row) ==
    LET last == IF m.deleted # NoTs THEN m.deleted ELSE m.ts IN
    IF last # NoTs /\ ~Gt(row.deleted, last)
    THEN m
    ELSE [ts |-> IF row.ts # NoTs THEN row.ts ELSE m.ts, deleted |-> row.deleted]

ApplySnapshotLive(m, row) ==
    IF \/ row.ts = NoTs
       \/ m.deleted # NoTs /\ ~Gt(row.ts, m.deleted)
       \/ m.ts # NoTs /\ ~Gt(row.ts, m.ts)
    THEN m
    ELSE [ts |-> row.ts, deleted |-> NoTs]

ApplySnapshotObject(m, row) ==
    IF row.deleted # NoTs
    THEN ApplySnapshotTombstone(m, row)
    ELSE ApplySnapshotLive(m, row)

----------------------------------------------------------------------------
Init ==
    /\ kindOf \in [Stamps -> Kinds]
    /\ meta = [ts |-> NoTs, deleted |-> NoTs]
    /\ given = {}

Put(ts) ==
    /\ kindOf[ts] = "putObj"
    /\ meta' = PutObject(meta, ts)
    /\ given' = given \cup {ts}
    /\ UNCHANGED kindOf

Delete(ts) ==
    /\ kindOf[ts] = "delObj"
    /\ meta' = DeleteObject(meta, ts)
    /\ given' = given \cup {ts}
    /\ UNCHANGED kindOf

\* The rows another replica's snapshot can hold: what the newest of some
\* operations left, with any older put it had accepted still in ts.
SnapshotRows ==
    LET Puts == {s \in Stamps : kindOf[s] = "putObj"}
        Dels == Stamps \ Puts
    IN  {[ts |-> p, deleted |-> NoTs] : p \in Puts}
        \cup {[ts |-> p, deleted |-> d] : p \in Puts \cup {NoTs}, d \in Dels}

Snapshot ==
    \E row \in SnapshotRows :
        /\ row.deleted # NoTs => Gt(row.deleted, row.ts)
        /\ meta' = ApplySnapshotObject(meta, row)
        /\ given' = given \cup ({row.ts, row.deleted} \ {NoTs})
        /\ UNCHANGED kindOf

Next ==
    \/ \E ts \in Stamps : Put(ts) \/ Delete(ts)
    \/ Snapshot

Spec == Init /\ [][Next]_vars

----------------------------------------------------------------------------
\* What a reader of the object sees: read() returns nothing for a tombstone.
View(m) ==
    [ver  |-> IF m.deleted # NoTs THEN m.deleted ELSE m.ts,
     live |-> m.ts # NoTs /\ m.deleted = NoTs]

Register == INSTANCE LwwRegister
    WITH given <- {[ts |-> s, kind |-> kindOf[s]] : s \in given},
         row   <- View(meta)

(***************************************************************************)
(* The put, delete and snapshot handlers on {ts, deleted} implement the     *)
(* last-writer-wins register: after any sequence of puts, deletes and       *)
(* snapshot rows, late, repeated or out of order, the object is the one the *)
(* newest of them left (_putObject, _deleteObject, _applySnapshotObject).   *)
(***************************************************************************)
ImplementsRegister == Register!Spec

(***************************************************************************)
(* A tombstone is newer than the last put it covers, which is why an entry  *)
(* whose ts lags behind cannot let an old put through.                      *)
(***************************************************************************)
TombstoneCoversPut == meta.deleted # NoTs => Gt(meta.deleted, meta.ts)

============================================================================
