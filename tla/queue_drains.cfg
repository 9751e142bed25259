\* One tick under fair workers and a fair reaper: every row leaves the queue.
CONSTANTS
    Dispatch = {d1}
    Job = {j1, j2, j3}
    Unit = {u1, u2}
    Worker = {w1, w2}
    ScanOf <- MCScanOf
    Kind <- HotScan
    MaxAttempts = 2
    ChunkSize = 1
    ReaperOn = TRUE
    LeaseCoversWork = TRUE
    NoJob = NoJob
    NoDispatch = NoDispatch
    NoUnit = NoUnit
SPECIFICATION FairSpec
PROPERTIES
    Drains
CHECK_DEADLOCK FALSE
