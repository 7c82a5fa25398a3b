SPECIFICATION Spec
CONSTANTS
    Key = {1, 2}
    kMaxSeq = 9
    MaxCalls = 4
    Snap = {s1}
    Reader = {}
    kMaxLevels = 3
    write_buffer_size = 1
    l0_compaction_trigger = 9
    level_base_size = 1
    max_sst_size = 1
    sync_mode = "always"
    kSyncThreshold = 1
    Faults = {"rotate", "append", "sst"}
    Crashes = {"kill", "power"}
    MaxFile = 14
    MaxFaults = 1
    MaxCrashes = 2
INVARIANTS
    KillLosesNothing
    AlwaysOpens
PROPERTIES
    ImplementsMvcc
