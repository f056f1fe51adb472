----------------------------- MODULE MCRecovery -----------------------------
EXTENDS Recovery

MCGenerations == <<{"default"}, {"t0", "t1"}>>

MCRoute ==
    <<[id \in Ids |-> CHOOSE sh \in Generations[1] : TRUE],
      [id \in Ids |-> IF id = "a" THEN "t0" ELSE "t1"]>>

AB == <<"A", "B">>
BA == <<"B", "A">>

AllPeers == [sh \in Shards |-> AB]

\* One replica after the other is restarted or crashes; the primary takes writes.
Upgrade ==
    [peers |-> AllPeers, writers |-> <<{"A"}, {}>>,
     ids |-> {"a"}, retain |-> 0, writes |-> 2,
     stops |-> 2, crashes |-> 1, crashAt |-> {"up"}, reshard |-> FALSE]

\* Both replicas take writes, are stopped, and come back with two shards; they
\* crash while they restore.
Reshard ==
    [peers |-> [AllPeers EXCEPT !["t0"] = <<"A">>, !["t1"] = BA],
     writers |-> <<{"A", "B"}, {"A", "B"}>>,
     ids |-> {"a", "b"}, retain |-> 2, writes |-> 2,
     stops |-> 2, crashes |-> 1, crashAt |-> {"restored", "waiting"},
     reshard |-> TRUE]

\* As Upgrade, with writes at the replica that is not the primary.
ReplicaWrites ==
    [Upgrade EXCEPT !.writers = <<{"A", "B"}, {}>>, !.writes = 3, !.crashes = 0]

\* A change of the shard count in which primaries write; they crash at any time.
Split ==
    [Reshard EXCEPT !.peers["t1"] = <<"B">>, !.writers[1] = {"A"},
                    !.crashAt = {"up", "restored", "waiting"}]

MCPlans == {Upgrade, Reshard, Split}
ReplicaWritesOnly == {ReplicaWrites}

=============================================================================
