SPECIFICATION Spec
CONSTANTS
    a1 = a1  a2 = a2  c1 = c1  c2 = c2
    Account <- MCAccount
    Click <- MCClick
    None = None
    MaxCredits = 1
    MaxLoads = 3
INVARIANT TypeOK
PROPERTIES ResetsConfirmed ShownNeverOlder OutcomesShown
SYMMETRY Symmetry
CHECK_DEADLOCK FALSE
