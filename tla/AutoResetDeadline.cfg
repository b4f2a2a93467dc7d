SPECIFICATION Spec
CONSTANTS
    Account <- TwoAccounts
    IdentityOf <- Apart
    Credit <- ThreeCredits
    OwnerOf <- OwnersApart
    Expiries = {0, 7, 8}
    None = None
    Concurrency = 1
    Lead = 4
    ScanInterval = 6
    ScanRetry = 12
    Spacing = 1
    RefreshInterval = 16
    QuotaRetry = 12
    VerifyRetry = 2
    PostReset = 1
    DedupWindow = 1
    TTL = 6
    ErrTTL = 2
    FaultKinds = {"verify"}
    MaxFaults = 1
    OutsideKinds = {"manual", "page", "use"}
    MaxOutside = 2
    MaxSlow = 0
    MaxClock = 9
INVARIANTS TypeOK NoCreditLapses PlansAreLive NoSpinning
CHECK_DEADLOCK FALSE
