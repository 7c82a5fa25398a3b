SPECIFICATION Spec
CONSTANTS
    Key = {1, 2}
    kMaxSeq = 9
    MaxCalls = 3
    Snap = {s1}
    Reader = {}
    kMaxLevels = 3
    write_buffer_size = 1
    l0_compaction_trigger = 1
    level_base_size = 0
    max_sst_size = 1
    sync_mode = "always"
    kSyncThreshold = 1
    Faults = {"rotate", "append", "partial", "sync", "sst", "manifest", "dirsync"}
    Crashes = {"kill"}
    MaxFile = 14
    MaxFaults = 1
    MaxCrashes = 1
INVARIANTS
    TypeOK
    GetCorrect
    ScanAgreesWithGet
    NothingLeaks
PROPERTIES
    LogsOutliveFloor
CHECK_DEADLOCK FALSE
