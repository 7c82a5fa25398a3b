SPECIFICATION FairSpec
CONSTANTS
    Key = {1, 2}
    kMaxSeq = 9
    MaxCalls = 3
    Snap = {}
    Reader = {}
    kMaxLevels = 3
    write_buffer_size = 1
    l0_compaction_trigger = 1
    level_base_size = 1
    max_sst_size = 1
    sync_mode = "periodic"
    kSyncThreshold = 2
    Faults = {"rotate", "append", "sst"}
    Crashes = {"kill"}
    MaxFile = 14
    MaxFaults = 1
    MaxCrashes = 2
INVARIANTS
    LossWindow
PROPERTIES
    BackgroundDrains
CHECK_DEADLOCK FALSE
