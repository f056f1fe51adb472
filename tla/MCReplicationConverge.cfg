SPECIFICATION FairSpec
CONSTANTS
    a = a
    b = b
    Nodes = {1, 2}
    Ids = {a}
    Shards <- OneShard
    DefaultShard = "default"
    ShardOf <- OneShardOf
    Owners <- OneShardOwners
    Lanes <- AntiEntropyOnly
    RetainOps = 1
    BatchSize = 2
    MaxOps <- TwoAndOne
    MaxAckMsgs = 1
INVARIANTS
    TypeOK
PROPERTIES
    ImplementsConvergentStore
    Convergence
CHECK_DEADLOCK FALSE
