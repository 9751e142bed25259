\* One endpoint over four folds at one vantage.
SPECIFICATION CauseSpec
CONSTANTS
    ShortValidity = 10
    SensitivePairs <- MCPairs
    Vantage = {v1}
    Cert <- MCCert
    Http <- MCHttp
    Tls <- MCTls
    Svc <- MCSvc
    Host <- MCHost
    Declared = FALSE
    Muted = {"unauthenticated-request-answered"}
    MaxInstant = 10
    MaxFold = 4
PROPERTY FlagshipTold
CHECK_DEADLOCK FALSE
