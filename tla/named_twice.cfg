\* The ordinary path: reaper armed, one hot tick, one poll.  Is ground named twice?
CONSTANTS
    MaxInstant = 3
    MaxFolds = 1
    MaxTicks = 1
    MaxJobs = 1
    Poller = {p1}
    Sweeps = FALSE
    KnobsMove = FALSE
SPECIFICATION Spec
INVARIANT NamedOnce
CHECK_DEADLOCK FALSE
