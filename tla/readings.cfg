\* Bounds by part: two hosts under one pacer; two operators at two proposals; one endpoint over three folds; two loaders
\* of the signals page; three timelines of the drift feed.
SPECIFICATION ReadingsSpec
CONSTANTS
    Hosts = {1, 2}
    Ports = {1}
    ControlPorts = {8, 9}
    Names = {"n"}
    Retries = 1
    ControlPortRetries = 0
    Second = 4
    PerHost = 2
    PerVantage = 4
    HandshakesPerSec = 2
    RequestsPerSec = 2
    Versions <- MCVersions
    Ciphers = {11, 12}
    EdgeChunk = 1
    MaxSlip = 1
    MaxClock = 9
    Operators = {o1, o2}
    AddrBits = 3
    AddrCap = 2
    Delegated <- MCDelegated
    Records <- MCRecords
    ASNKey <- MCASNKey
    Entities <- MCEntities
    SearchPage = 1
    SearchMaxPages = 2
    ASNLegMax = 2
    Hand <- MCHand
    MaxProposals = 2
    MaxActs = 1
    MaxFailures = 1
    Unheard = Unheard
    ShortValidity = 10
    SensitivePairs <- MCPairs
    Vantage = {v1}
    Cert <- MCCert
    Http <- MCHttp
    Tls <- MCTls
    Svc <- MCSvc
    Host <- MCHost
    Declared = FALSE
    Muted = {"unauthenticated-request-answered"}
    MaxInstant = 10
    MaxFold = 3
    Vantages = {"v1", "v2"}
    Presented <- MCPresented
    Service <- MCService
    Name <- MCName
    Zone <- MCZone
    Blocks <- MCBlocks
    Order <- MCOrder
    WalkOutcomes = {"Resolved", "NameError"}
    Loaders = {1, 2}
    MaxMoves = 2
    MaxLoads = 2
    Lines = {1, 2, 3}
    SubjectOf <- MCSubjectOf
    KindOf <- MCKindOf
    DeclaredSubjects = {"svc"}
    Values = {"a", "b"}
    driftFeedLimit = 3
    driftBatchLimit = 1
    TrendBucket = 1
    TrendBuckets = 2
    MaxBars = 1
    MaxBar = 2
    MaxFeedClock = 4
SYMMETRY Alike
INVARIANTS  DeclineHolds  PagesAgree 
 
CHECK_DEADLOCK FALSE
