\* One Message on two Channels under two runners; one schedule under two
\* pollers; arrivals at three timelines over three folds.
SPECIFICATION OutboundSpec
CONSTANTS
    Message = {m1}
    Channel = {c1, c2}
    drift = drift
    Class = {drift}
    ClassOf <- MCClassOf
    Runner = {r1, r2}
    MaxAttempts = 3
    MaxEdits = 2
    NoPair = NoPair
    Schedule = {s1}
    Hook = {1}
    ReportPoller = {p1, p2}
    Poster = {q1}
    Cadence = {1, 2}
    MaxNow = 2
    MaxRunNow = 1
    MaxScheduleEdits = 2
    PostBudget = 2
    NoSchedule = NoSchedule
    ArrName = {"in", "out"}
    T <- MCTimelines
    ArrAddr = {"a", "b"}
    ArrZone = {"in"}
    ArrBlock = {"a"}
    MaxRelease = 2
    MaxArrFolds = 3
    MaxArrActs = 1
INVARIANTS HonestRecord BudgetKept RoutedWhole OneReceiptPerTick NoSilentGround
PROPERTIES WorkedOff LastTickCut ArrivalsTold
CHECK_DEADLOCK FALSE
