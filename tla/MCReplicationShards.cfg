SPECIFICATION Spec
CONSTANTS
    a = a
    b = b
    Nodes = {1, 2}
    Ids = {a, b}
    Shards <- TwoShards
    DefaultShard = "default"
    ShardOf <- TwoShardsOf
    Owners <- TwoShardsOwners
    Lanes <- AntiEntropyOnly
    RetainOps = 0
    BatchSize = 2
    MaxOps <- TwoAndNone
    MaxAckMsgs = 1
INVARIANTS
    StoreIsJoin
PROPERTIES
    AckedPeersStayInLog
CHECK_DEADLOCK FALSE
