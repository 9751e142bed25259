\* Two ticks of a gated, atomic Scan whose leases outlast the work.
CONSTANTS
    Dispatch = {d1, d2}
    Job = {j1, j2, j3, j4}
    Unit = {u1}
    Worker = {w1, w2}
    ScanOf <- MCScanOf
    Kind <- CTTailScan
    MaxAttempts = 2
    ChunkSize = 1
    ReaperOn = TRUE
    LeaseCoversWork = TRUE
    NoJob = NoJob
    NoDispatch = NoDispatch
    NoUnit = NoUnit
SPECIFICATION Spec
SYMMETRY Ids
INVARIANTS
    NoOvertaking
    UnitsKept
CHECK_DEADLOCK FALSE
