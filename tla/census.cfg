\* One move, two hot ticks and their folds under two pollers, the retention sweep
\* and every reconfiguration; one timeline observed by two Scans.
SPECIFICATION CensusSpec
CONSTANTS
    MaxInstant = 3
    MaxFolds = 1
    MaxTicks = 2
    MaxJobs = 1
    Poller = {p1, p2}
    Sweeps = TRUE
    KnobsMove = TRUE
    Timeline = {"a"}
    Enabled = {"hot", "cold"}
    CadenceOf = {1, 3}
    DialDays = {0, 1, 3}
    SecondsPerDay = 4
    FloorCadences = 2
    MaxHour = 5
    MaxHeld = 2
SYMMETRY Pollers
INVARIANTS CensusIsItsDispatchs NothingUnnamed RoutedOnce
PROPERTIES SweepSparesRelease RetiresByOneRule
CHECK_DEADLOCK FALSE
