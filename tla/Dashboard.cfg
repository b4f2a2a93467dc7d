SPECIFICATION FairSpec
CONSTANTS
    d1 = d1  d2 = d2  a1 = a1  a2 = a2
    Request <- MCRequest
    Account <- MCAccount
    Windows = 1
    Concurrency = 1
    None = None
    MaxUpsets = 2
INVARIANTS TypeOK FlightsLed AnswersComplete
PROPERTIES DashboardsAnswered
CHECK_DEADLOCK FALSE
