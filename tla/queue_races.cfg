\* One streamed hot tick of two units, with leases that may lapse under a live
\* worker: every race on a row between two workers, the reaper and the operator.
CONSTANTS
    Dispatch = {d1}
    Job = {j1, j2, j3, j4}
    Unit = {u1, u2}
    Worker = {w1, w2}
    ScanOf <- MCScanOf
    Kind <- HotScan
    MaxAttempts = 2
    ChunkSize = 1
    ReaperOn = TRUE
    LeaseCoversWork = FALSE
    NoJob = NoJob
    NoDispatch = NoDispatch
    NoUnit = NoUnit
SPECIFICATION Spec
SYMMETRY Ids
INVARIANTS
    OneOutcome
PROPERTIES
    DrainedIsFinal
    ImplementsLedger
CHECK_DEADLOCK FALSE
