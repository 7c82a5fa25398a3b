SPECIFICATION Spec
CONSTANTS
    Key = {k1, k2}
    Snap = {s1}
    Modes = {"always", "never"}
    vlog_gc_size = 3
    kValueSize = 2
    kOverhead = 1
    Faults = {"append", "wal", "open", "manifest", "flush", "sync"}
    Crashes = {"kill", "power"}
    Damage = {}
    MaxCalls = 3
    MaxRotations = 2
    MaxGen = 3
    MaxFaults = 1
    MaxCrashes = 1
    k1 = k1
    k2 = k2
    s1 = s1
SYMMETRY Symmetry
INVARIANTS
    LatestResolves
    SnapshotsResolve
    RecoveryNamedAtFloor
    DurableWalHasDurableVlog
CHECK_DEADLOCK FALSE
