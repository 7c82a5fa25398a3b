SPECIFICATION FairSpec
CONSTANTS
    Entries = 2
    Modes = {"always", "periodic", "never"}
    kSyncThreshold = 2
    write_buffer_size = 3
    kBlockRecords = 2
    Faults = {"enter", "submit", "write", "short", "fsync", "open"}
    MaxCalls = 4
    MaxFaults = 2
INVARIANTS
    BuffersOutliveWrites
    NothingOnClosedLog
    NothingUncounted
    AckedReplayed
    ErrorsNotSwallowed
PROPERTIES
    MutexReleased
CHECK_DEADLOCK FALSE
