SPECIFICATION FairSpec
CONSTANTS
    r1 = r1  r2 = r2  a1 = a1
    f1 = f1  f2 = f2
    Reader <- MCReader
    Account <- MCAccount
    Flight <- MCFlight
    None = None
    Failed = Failed
    TTL = 2
    ErrTTL = 1
    MaxClock = 2
    MaxVersion = 2
    MaxReading = 1
INVARIANTS TypeOK CacheSinceInvalidation OneFetchPerVersion
PROPERTIES AnswersFresh QueriesAnswered
