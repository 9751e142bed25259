\* Three accounts and two browsers, alike; a restore beside a dispatch and an
\* older archive; one username behind two addresses; two admins at the dials.
SPECIFICATION DeskSpec
CONSTANTS
    Account = {ann, bob, cat}
    Browser = {b1, b2}
    Invite = {i1}
    Reset = {r1}
    Provider = {p1}
    Sub = {s1}
    MaxClock = 2
    MaxOps = 3
    RecoveryCodes = 1
    TeamRaces = FALSE
    Used = {"vantage", "batch", "act"}
    Admin = {root}
    MaxId = 2
    MaxRows = 2
    MaxRestores = 1
    WritesInDump = TRUE
    OlderArchives = TRUE
    User = {"ann"}
    Source = {"ip1", "ip2"}
    MaxFailures = 2
    Window = 1
    BaseLockout = 3
    MaxLockout = 4
    AcctCeiling = 2
    MaxInstant = 6
    MaxRequests = 2
    Operator = {"ann", "bob"}
    Submitted = {0, 1, 2}
    DialFloor = 2
    MaxMoves = 3
SYMMETRY Alike
INVARIANTS GrantsSpentOnce  RestoredWhole LockoutEnds LogTellsDials
CHECK_DEADLOCK FALSE
