SPECIFICATION Spec
CONSTANTS
    a = a
    b = b
    Nodes = {1, 2}
    Ids = {a}
    Shards <- OneShard
    DefaultShard = "default"
    ShardOf <- OneShardOf
    Owners <- OneShardOwners
    Lanes <- BothLanes
    RetainOps = 0
    BatchSize = 1
    MaxOps <- TwoAndNone
    MaxAckMsgs = 2
INVARIANTS
    StoreIsJoin
PROPERTIES
    AckedPeersStayInLog
CHECK_DEADLOCK FALSE
