SPECIFICATION Spec
CONSTANTS
    Account <- TwoAccounts
    IdentityOf <- Together
    Credit <- TwoCredits
    OwnerOf <- OwnersTogether
    Expiries = {6, 12}
    None = None
    Concurrency = 1
    Lead = 4
    ScanInterval = 6
    ScanRetry = 12
    Spacing = 1
    RefreshInterval = 16
    QuotaRetry = 12
    VerifyRetry = 2
    PostReset = 1
    DedupWindow = 1
    TTL = 6
    ErrTTL = 2
    FaultKinds = {"scan", "verify", "post"}
    MaxFaults = 1
    OutsideKinds = {"manual", "use", "toggle", "stop"}
    MaxOutside = 2
    MaxSlow = 1
    MaxClock = 13
INVARIANTS OneTrackedPerIdentity
PROPERTIES SpendsOnlyExpiring OneAttemptPerSnapshot
CHECK_DEADLOCK FALSE
