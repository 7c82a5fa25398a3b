SPECIFICATION FairSpec
CONSTANTS
    Key = {k1}
    Snap = {s1}
    Modes = {"always", "never"}
    vlog_gc_size = 3
    kValueSize = 2
    kOverhead = 1
    Faults = {"partial", "fsync", "append", "wal", "open", "manifest", "flush", "sync"}
    Crashes = {"kill", "power"}
    Damage = {}
    MaxCalls = 3
    MaxRotations = 1
    MaxGen = 8
    MaxFaults = 1
    MaxCrashes = 1
    k1 = k1
    s1 = s1
INVARIANTS
    ReadersNeverWrong
    PassSettles
PROPERTIES
    GcSettles
CHECK_DEADLOCK FALSE
