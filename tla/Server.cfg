SPECIFICATION FairSpec
CONSTANTS
    c1 = c1
    c2 = c2
    c3 = c3
    Client = {c1, c2, c3}
    Scripts <- MCScripts
    Quitter = {c2}
    kMaxMultibulk = 3
    kMaxBulkLen = 3
    kMaxInlineLine = 6
    kMaxNumberLine = 5
    kMaxConns = 2
    kMaxInBytes = 20
    kMaxOutBytes = 3
    kReadChunk = 12
    kSndBuf = 1
    Faults = {"store", "ctl", "accept", "wait"}
ACTION_CONSTRAINT SendBound
INVARIANTS
    RequestsExact
    RepliesInOrder
    InterestExact
PROPERTIES
    ImplementsService
    AllAnswered
    StopEnds
CHECK_DEADLOCK FALSE
