SPECIFICATION FairSpec
CONSTANTS
    Entries = 2
    Modes = {"always"}
    kSyncThreshold = 2
    write_buffer_size = 3
    kBlockRecords = 2
    Faults = {"write"}
    MaxCalls = 3
    MaxFaults = 1
INVARIANTS
    AckedSurvive
CHECK_DEADLOCK FALSE
