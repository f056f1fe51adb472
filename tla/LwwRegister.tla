---------------------------- MODULE LwwRegister ----------------------------
(***************************************************************************)
(* What a replica promises for one object: whatever the order, duplication  *)
(* or batching in which operations reach it, the row shows the newest       *)
(* operation it has been given.  Snapshot rows carry the effect of a set of *)
(* operations at once.                                                      *)
(***************************************************************************)
EXTENDS Lww

VARIABLES given,             \* operations that have reached the replica
          row

vars == <<given, row>>

Init == given = {} /\ row = NoRow

\* More operations arrive, one or many at a time.
Receive ==
    /\ given \subseteq given'
    /\ Newest(given', row')

Spec == Init /\ [][Receive]_vars

============================================================================
