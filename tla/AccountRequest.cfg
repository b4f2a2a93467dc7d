SPECIFICATION FairSpec
CONSTANTS
    t1 = t1  t2 = t2  g1 = g1  g2 = g2
    Request <- MCRequest
    Asks <- MCAsks
    Group <- MCGroup
    Account <- MCAccount
    IdentityOf <- MCIdentityOf
    FirstMembers <- MCFirstMembers
    PageSize = 1
    None = None
    MaxUpsets = 1
INVARIANTS TypeOK RefusalsJustified
PROPERTIES ResetsAuthorized RequestsEnd
