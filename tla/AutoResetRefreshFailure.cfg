SPECIFICATION Spec
CONSTANTS
    Account <- OneAccount
    IdentityOf <- Alone
    Credit <- OneCredit
    OwnerOf <- OwnerAlone
    Expiries = {24}
    None = None
    Concurrency = 1
    Lead = 4
    ScanInterval = 6
    ScanRetry = 12
    Spacing = 1
    RefreshInterval = 16
    QuotaRetry = 12
    VerifyRetry = 2
    PostReset = 1
    DedupWindow = 1
    TTL = 6
    ErrTTL = 2
    FaultKinds = {"refresh"}
    MaxFaults = 1
    OutsideKinds = {}
    MaxOutside = 0
    MaxSlow = 0
    MaxClock = 26
INVARIANTS KnownExpiryIsConfirmed
CHECK_DEADLOCK FALSE
