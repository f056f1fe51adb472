--------------------------- MODULE MCReplication ---------------------------
(***************************************************************************)
(* Small instances of Replication for TLC.                                  *)
(***************************************************************************)
EXTENDS Replication

CONSTANTS a, b               \* two objects

\* The default shard, on both nodes.
OneShard == {"default"}
OneShardOf == [id \in {a} |-> "default"]
OneShardOwners == [sh \in OneShard |-> {1, 2}]

\* Two named shards, both on both nodes, one object each.
TwoShards == {"s1", "s2"}
TwoShardsOf == [id \in {a, b} |-> IF id = a THEN "s1" ELSE "s2"]
TwoShardsOwners == [sh \in TwoShards |-> {1, 2}]

\* One node writes, or both do.
TwoAndNone == <<2, 0>>
TwoAndOne == <<2, 1>>

AntiEntropyOnly == {"antiEntropy"}
BothLanes == {"antiEntropy", "hint"}
============================================================================
