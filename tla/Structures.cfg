SPECIFICATION MCSpec
CONSTANTS
    kBlockSize = 6
    kHeaderSize = 2
    PayloadSizes = {0, 1, 2, 9}
    MaxRecords = 4
    MaxRestarts = 2
    Damage = {}
    Key = {1, 2, 3}
    Nil = 4
    kMaxLevel = 2
    Reader = {r1}
    CacheKey = {1, 2, 3, 5}
    Value <- MCValue
    ShardOf <- MCShardOf
    shards = 2
    max_total_weight = 4
    UserKey <- MCUserKey
    MaxSeq = 4
    TableOptions <- MCTableOptions
    Hash <- MCHash
    kHalfHash = 4
    bloom_bits_per_key = 3
    kMinFilterBits = 8
    kProbes = 2
INVARIANTS
    RecoveryExact
    NothingMissed
    CacheExact
    TableGetExact
    WalkExact
PROPERTIES
    EvictsOldest
CHECK_DEADLOCK FALSE
