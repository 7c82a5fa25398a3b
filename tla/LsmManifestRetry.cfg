SPECIFICATION Spec
CONSTANTS
    Key = {1, 2}
    kMaxSeq = 9
    MaxCalls = 4
    Snap = {}
    Reader = {}
    kMaxLevels = 3
    write_buffer_size = 1
    l0_compaction_trigger = 2
    level_base_size = 1
    max_sst_size = 1
    sync_mode = "always"
    kSyncThreshold = 1
    Faults = {"manifest"}
    Crashes = {}
    MaxFile = 14
    MaxFaults = 1
    MaxCrashes = 0
INVARIANTS
    AlwaysOpens
