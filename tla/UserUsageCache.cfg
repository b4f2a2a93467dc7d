SPECIFICATION FairSpec
CONSTANTS
    r1 = r1  r2 = r2  k1 = k1  f1 = f1  f2 = f2
    Reader <- MCReader
    Key <- MCKey
    Flight <- MCFlight
    None = None
    GaveUp = GaveUp
    TTL = 2
    ErrTTL = 1
    MaxClock = 2
    MaxLoads = 3
INVARIANTS TypeOK OneLoadPerKey
PROPERTIES AnswersRecent StatsAnswered
CHECK_DEADLOCK FALSE
