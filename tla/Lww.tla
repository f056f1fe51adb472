-------------------------------- MODULE Lww --------------------------------
(***************************************************************************)
(* The conflict rule of OBJY DB: Lamport timestamps (src/clock.js) and the  *)
(* last-writer-wins register that one object row is (src/store.js, the      *)
(* meta entry {ts, deleted} of a Collection).                               *)
(*                                                                          *)
(* A row is kept here as the timestamp of the newest accepted write or      *)
(* delete and whether that write left the object live.  The code keeps two  *)
(* timestamps, ts and deleted; module RowMeta checks that the handlers on   *)
(* them implement the register below.  The value of an object is identified *)
(* by the timestamp of the write that stored it.                            *)
(***************************************************************************)
EXTENDS Naturals

Timestamp == [c : Nat, n : Nat]

\* null in the code: no write has been accepted yet.
NoTs == [c |-> 0, n |-> 0]

\* gt(a, b): counter first, then node id.
Gt(a, b) == a.c > b.c \/ (a.c = b.c /\ a.n > b.n)

Geq(a, b) == a = b \/ Gt(a, b)

Kinds == {"putObj", "delObj"}

Row == [ver : Timestamp, live : BOOLEAN]

NoRow == [ver |-> NoTs, live |-> FALSE]

\* A row after one operation: an operation that is not newer is rejected.
Merge(row, kind, ts) ==
    IF Gt(ts, row.ver) THEN [ver |-> ts, live |-> kind = "putObj"] ELSE row

\* The row that a set of operations determines: the newest one decides.
Newest(ops, row) ==
    \/ ops = {} /\ row = NoRow
    \/ \E top \in ops :
          /\ \A o \in ops : Geq(top.ts, o.ts)
          /\ row = [ver |-> top.ts, live |-> top.kind = "putObj"]

============================================================================
