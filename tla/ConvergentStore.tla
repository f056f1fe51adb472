-------------------------- MODULE ConvergentStore --------------------------
(***************************************************************************)
(* What the replicated store promises, without logs, cursors or messages.   *)
(* Each replica knows a growing set of the operations issued anywhere, and  *)
(* shows for every object the newest operation it knows.  So two replicas   *)
(* that know the same operations show the same objects, nothing a replica   *)
(* has shown is ever replaced by something older, and an operation takes    *)
(* effect at once on the replica that issues it.                            *)
(***************************************************************************)
EXTENDS Lww

CONSTANTS Replicas, Objects

VARIABLES issued,            \* operations issued so far
          known,             \* known[n]: the ones that have reached n
          rows               \* rows[n][id]: what n shows for the object

vars == <<issued, known, rows>>

Shows(ops, shown) ==
    \A id \in Objects : Newest({o \in ops : o.id = id}, shown[id])

Init ==
    /\ issued = {}
    /\ known = [n \in Replicas |-> {}]
    /\ rows = [n \in Replicas |-> [id \in Objects |-> NoRow]]

\* n issues an operation that supersedes everything n knows.
Issue(n) ==
    \E op \in issued' \ issued :
        /\ issued' = issued \cup {op}
        /\ known' = [known EXCEPT ![n] = @ \cup {op}]
        /\ \A k \in known[n] : Gt(op.ts, k.ts)
        /\ \A o \in issued : o.ts # op.ts
        /\ Shows(known'[n], rows'[n])
        /\ \A m \in Replicas \ {n} : rows'[m] = rows[m]

\* Some of the operations issued elsewhere reach n.
Learn(n) ==
    /\ known[n] \subseteq known'[n] /\ known'[n] \subseteq issued
    /\ Shows(known'[n], rows'[n])
    /\ \A m \in Replicas \ {n} : known'[m] = known[m] /\ rows'[m] = rows[m]
    /\ UNCHANGED issued

Next == \E n \in Replicas : Issue(n) \/ Learn(n)

Spec == Init /\ [][Next]_vars

============================================================================
