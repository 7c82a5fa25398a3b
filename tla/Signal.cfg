SPECIFICATION FairSpec
CONSTANTS
    Writer = {w1, w2}
    Waiter = {t1}
    Snapper = {s1}
    bg = bg
    Owner = owner
    write_buffer_size = 1
    l0_compaction_trigger = 1
    vlog_gc_size = 1
    SnapshotWhileWaiting = FALSE
    MaxVlog = 2
    MaxScan = 1
    MaxFaults = 1
INVARIANTS
    BackgroundAwake
    
PROPERTIES
    WritersWoken
    ShutdownEnds
CHECK_DEADLOCK FALSE
