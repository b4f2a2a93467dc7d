SPECIFICATION FairSpec
CONSTANTS
    Day = 6
    Duration = 10
    FirstPageSize = 4
    MaxRecords = 3
    Progress <- MCProgress
    FirstTimes <- MCFirstTimes
    OldRecords <- MCOldRecords
    MaxClock = 13
    None = None
    NoWindow = NoWindow
    MaxInt = 9
    MaxAmount = 6
    Tolerance = 1
    Failed = Failed
INVARIANTS TypeOK WindowCoversRequest NothingMissed ExcessBounded
PROPERTIES FetchEnds
